---- MODULE Spec2Model ----
(***************************************************************************)
(* A model of the httpfromtcp engine: the header table, the incremental   *)
(* request parser, the response writer and the connection server.          *)
(*                                                                         *)
(* Bytes are one-character strings and a byte slice is a sequence of them. *)
(* Go indexes from 0 and TLA+ from 1: an operator that returns a Go index  *)
(* (IndexOf) returns the 0-based one, with -1 for "not found", and the     *)
(* slicing operators take Go's half-open 0-based ranges.                   *)
(***************************************************************************)
EXTENDS Integers, Sequences, FiniteSets, TLC

VARIABLES
    \* ---- request parser (RequestFromReader) ----
    src,          \* the request offered to the reader: [line, hdrs, body]
    reader,       \* how the current reader fragments: "one", "eight", "fit"
    pos,          \* number of bytes the reader has delivered so far
    buf,          \* the accumulation buffer (len(buf) bytes)
    readToIndex,  \* number of valid bytes at the front of buf
    req,          \* the Request under construction
    status,       \* "idle", "running", "ok", "err", "panic"
    perr,         \* the error RequestFromReader returned (NoErr if none)
    lastPass,     \* what the last loop iteration did (read size, bytes parsed, ...)
    outcomes,     \* reader kind -> outcome of the finished run with that reader
    fed,          \* a parse call made on the Request after RequestFromReader returned it
    \* ---- header table (Headers) ----
    hdr,          \* the table
    hcall,        \* the last Parse / Set / Get call and what it returned
    hsets,        \* number of insertions so far
    \* ---- response writer (Writer) ----
    writerState,  \* "StatusLine", "Headers", "Body", "Trailers"
    sink,         \* the bytes the sink has accepted
    wcall,        \* the last writer call: op, state before, error, bytes appended
    wfails,       \* number of writes the sink has refused
    whist,        \* the calls that passed their state guard, in order: [op, err]
    wlog,         \* for each call of whist: its argument and the bytes it appended
    \* ---- connection server (Server) ----
    closed,       \* the atomic closed flag
    listener,     \* "open" or "closed"
    listenPc,     \* the accept loop: "accept", "spawn", "failed", "logged", "exited"
    closePc,      \* per Close call: "idle", "stored", "done"
    closeInfo,    \* per Close call: what it returned and how it was called
    conns,        \* per connection: "none", "pending", "refused", "taken" (returned by
                  \* Accept), "accepted" (its worker runs), "parsed" / "failed" (its
                  \* RequestFromReader returned), "closed"; and its history
    lclose,       \* number of listener.Close() calls made
    work,         \* per connection: what its worker read, called and wrote
    proc          \* the server process: "up", or "down" after an unrecovered panic

pvars == <<src, reader, pos, buf, readToIndex, req, status, perr, lastPass, outcomes, fed>>
hvars == <<hdr, hcall, hsets>>
wvars == <<writerState, sink, wcall, wfails, whist, wlog>>
svars == <<closed, listener, listenPc, closePc, closeInfo, conns, lclose, work, proc>>
vars == <<pvars, hvars, wvars, svars>>

-----------------------------------------------------------------------------
(* Byte-slice helpers: Go's slicing, bytes.Index, strings.Split, trimming. *)

NoErr == "nil"

Min(a, b) == IF a < b THEN a ELSE b

\* s[i:j] with Go's 0-based half-open bounds
Slice(s, i, j) == SubSeq(s, i + 1, j)

\* s[i:]
From(s, i) == SubSeq(s, i + 1, Len(s))

CR == "\r"
LF == "\n"
SP == " "
crlf == <<CR, LF>>

HasPrefixAt(s, i, p) ==
    /\ i + Len(p) <= Len(s)
    /\ \A k \in 1..Len(p) : s[i + k] = p[k]

\* bytes.Index(s, p): the 0-based index of the first occurrence of p, or -1
IndexOf(s, p) ==
    LET hits == {i \in 0..Len(s) : HasPrefixAt(s, i, p)}
    IN  IF hits = {} THEN -1 ELSE CHOOSE i \in hits : \A j \in hits : i <= j

\* strings.Split(s, sep) for a one-byte separator: always at least one part
RECURSIVE Split(_, _)
Split(s, sep) ==
    LET i == IndexOf(s, <<sep>>)
    IN  IF i = -1 THEN <<s>>
        ELSE <<Slice(s, 0, i)>> \o Split(From(s, i + 1), sep)

\* bytes.SplitN(s, sep, 2): at most two parts, split at the first separator
SplitN2(s, sep) ==
    LET i == IndexOf(s, <<sep>>)
    IN  IF i = -1 THEN <<s>> ELSE <<Slice(s, 0, i), From(s, i + 1)>>

Upper == <<"A", "B", "C", "D", "E", "F", "G", "H", "I", "J", "K", "L", "M",
           "N", "O", "P", "Q", "R", "S", "T", "U", "V", "W", "X", "Y", "Z">>
Lower == <<"a", "b", "c", "d", "e", "f", "g", "h", "i", "j", "k", "l", "m",
           "n", "o", "p", "q", "r", "s", "t", "u", "v", "w", "x", "y", "z">>
Digits == <<"0", "1", "2", "3", "4", "5", "6", "7", "8", "9">>

Range(f) == {f[i] : i \in DOMAIN f}

IsUpper(c) == c \in Range(Upper)
IsLower(c) == c \in Range(Lower)
IsDigit(c) == c \in Range(Digits)

ToLowerByte(c) ==
    IF IsUpper(c) THEN Lower[CHOOSE i \in DOMAIN Upper : Upper[i] = c] ELSE c

\* strings.ToLower
ToLower(s) == [i \in DOMAIN s |-> ToLowerByte(s[i])]

\* the white space strings.TrimSpace / bytes.TrimSpace strip
WhiteSpace == {SP, "\t", CR, LF}

RECURSIVE TrimRightSet(_, _)
TrimRightSet(s, cut) ==
    IF s # <<>> /\ s[Len(s)] \in cut THEN TrimRightSet(SubSeq(s, 1, Len(s) - 1), cut)
    ELSE s

RECURSIVE TrimLeftSet(_, _)
TrimLeftSet(s, cut) ==
    IF s # <<>> /\ s[1] \in cut THEN TrimLeftSet(Tail(s), cut) ELSE s

\* strings.TrimRight(s, " ")
TrimRightSpaces(s) == TrimRightSet(s, {SP})

\* strings.TrimSpace / bytes.TrimSpace
TrimSpace(s) == TrimLeftSet(TrimRightSet(s, WhiteSpace), WhiteSpace)

DigitValue(c) == (CHOOSE i \in DOMAIN Digits : Digits[i] = c) - 1

RECURSIVE DigitsValue(_)
DigitsValue(s) ==
    IF s = <<>> THEN 0
    ELSE 10 * DigitsValue(SubSeq(s, 1, Len(s) - 1)) + DigitValue(s[Len(s)])

\* strconv.Atoi: an optional sign, then one or more decimal digits
Atoi(s) ==
    LET signed == s # <<>> /\ s[1] \in {"+", "-"}
        ds     == IF signed THEN Tail(s) ELSE s
    IN  IF ds = <<>> \/ \E i \in DOMAIN ds : ~IsDigit(ds[i])
        THEN [n |-> 0, err |-> "invalid syntax"]
        ELSE [n |-> IF signed /\ s[1] = "-" THEN 0 - DigitsValue(ds) ELSE DigitsValue(ds),
              err |-> NoErr]

RECURSIVE DecDigits(_)
DecDigits(n) == IF n < 10 THEN <<Digits[n + 1]>> ELSE DecDigits(n \div 10) \o <<Digits[(n % 10) + 1]>>

HexDigits == Digits \o <<"a", "b", "c", "d", "e", "f">>

\* fmt.Sprintf("%x", n) for n >= 0
RECURSIVE HexString(_)
HexString(n) == IF n < 16 THEN <<HexDigits[n + 1]>> ELSE HexString(n \div 16) \o <<HexDigits[(n % 16) + 1]>>

-----------------------------------------------------------------------------
(* The header table: package headers.                                      *)

\* NewHeaders: an empty map (a function whose domain is the set of keys)
NewHeaders == [k \in {} |-> <<>>]

HasKey(h, key) == key \in DOMAIN h

\* Go's h[key] on a map: the zero value "" when the key is absent
MapGet(h, key) == IF HasKey(h, key) THEN h[key] ELSE <<>>

MapPut(h, key, value) == [k \in DOMAIN h \cup {key} |-> IF k = key THEN value ELSE h[k]]

\* the grave accent (0x60) cannot be written inside a TLA+ string: it has a name
GraveAccent == "GRAVE"

tokenChars == {"!", "#", "$", "%", "&", "'", "*", "+", "-", ".", "^", "_", GraveAccent, "|", "~"}

validTokens(data) ==
    \A i \in DOMAIN data :
        IsUpper(data[i]) \/ IsLower(data[i]) \/ IsDigit(data[i]) \/ data[i] \in tokenChars

Set_Overwrite(h, key, value) == MapPut(h, ToLower(key), value)

\* Headers.Set: lowercases the key and folds a repeated key with ", "
Set(h, key, value) ==
    LET k == ToLower(key)
    IN  IF HasKey(h, k) THEN MapPut(h, k, h[k] \o <<",", SP>> \o value)
        ELSE MapPut(h, k, value)

Get_ExactCase(h, key) == MapGet(h, key)

\* Headers.Get
Get(h, key) == MapGet(h, ToLower(key))

ErrHeaderName == "invalid header name"
ErrHeaderToken == "invalid header token found"
\* parts[1] on a one-element slice: a run-time panic, not an error value
PanicIndex == "panic: index out of range [1] with length 1"

IsPanic(e) == e = PanicIndex

HeadersParse_CheckColon(h, data) ==
    LET idx   == IndexOf(data, crlf)
        parts == SplitN2(Slice(data, 0, idx), ":")
        key   == ToLower(parts[1])
    IN  IF idx = -1 THEN [h |-> h, n |-> 0, done |-> FALSE, err |-> NoErr]
        ELSE IF idx = 0 THEN [h |-> h, n |-> 2, done |-> TRUE, err |-> NoErr]
        ELSE IF Len(parts) # 2 \/ key # TrimRightSpaces(key)
             THEN [h |-> h, n |-> 0, done |-> FALSE, err |-> ErrHeaderName]
        ELSE IF ~validTokens(TrimSpace(key))
             THEN [h |-> h, n |-> 0, done |-> FALSE, err |-> ErrHeaderToken]
        ELSE [h |-> Set(h, TrimSpace(key), TrimSpace(parts[2])),
              n |-> idx + 2, done |-> FALSE, err |-> NoErr]

HeadersParse_ValueToNextColon(h, data) ==
    LET idx   == IndexOf(data, crlf)
        parts == Split(Slice(data, 0, idx), ":")
        key   == ToLower(parts[1])
    IN  IF idx = -1 THEN [h |-> h, n |-> 0, done |-> FALSE, err |-> NoErr]
        ELSE IF idx = 0 THEN [h |-> h, n |-> 2, done |-> TRUE, err |-> NoErr]
        ELSE IF key # TrimRightSpaces(key)
             THEN [h |-> h, n |-> 0, done |-> FALSE, err |-> ErrHeaderName]
        ELSE IF Len(parts) < 2
             THEN [h |-> h, n |-> 0, done |-> FALSE, err |-> PanicIndex]
        ELSE IF ~validTokens(TrimSpace(key))
             THEN [h |-> h, n |-> 0, done |-> FALSE, err |-> ErrHeaderToken]
        ELSE [h |-> Set(h, TrimSpace(key), TrimSpace(parts[2])),
              n |-> idx + 2, done |-> FALSE, err |-> NoErr]

\* Headers.Parse: one header line (or the blank line) from the front of data
HeadersParse(h, data) ==
    LET idx   == IndexOf(data, crlf)
        parts == SplitN2(Slice(data, 0, idx), ":")
        key   == ToLower(parts[1])
    IN  IF idx = -1 THEN [h |-> h, n |-> 0, done |-> FALSE, err |-> NoErr]
        ELSE IF idx = 0 THEN [h |-> h, n |-> 2, done |-> TRUE, err |-> NoErr]
        ELSE IF key # TrimRightSpaces(key)
             THEN [h |-> h, n |-> 0, done |-> FALSE, err |-> ErrHeaderName]
        ELSE IF Len(parts) < 2
             THEN [h |-> h, n |-> 0, done |-> FALSE, err |-> PanicIndex]
        ELSE IF ~validTokens(TrimSpace(key))
             THEN [h |-> h, n |-> 0, done |-> FALSE, err |-> ErrHeaderToken]
        ELSE [h |-> Set(h, TrimSpace(key), TrimSpace(parts[2])),
              n |-> idx + 2, done |-> FALSE, err |-> NoErr]

\* Headers.ParseAll: Parse in a loop until it reports done. returns is FALSE when
\* the loop never ends: Parse consumed nothing and reported neither done nor an
\* error, so the next iteration calls it on the same data
RECURSIVE ParseAllStep(_, _, _)
ParseAllStep(res, data, n) ==
    IF res.err # NoErr THEN [h |-> res.h, n |-> 0, err |-> res.err, returns |-> TRUE]
    ELSE IF res.done THEN [h |-> res.h, n |-> n + res.n, err |-> NoErr, returns |-> TRUE]
    ELSE IF res.n = 0 THEN [h |-> res.h, n |-> n, err |-> NoErr, returns |-> FALSE]
    ELSE ParseAllStep(HeadersParse(res.h, From(data, res.n)), From(data, res.n), n + res.n)

ParseAll(h, data) == ParseAllStep(HeadersParse(h, data), data, 0)

-----------------------------------------------------------------------------
(* The request parser: package request.                                    *)

requestStateInitialized == "Initialized"
requestStateParsingHeaders == "ParsingHeaders"
requestStateParsingBody == "ParsingBody"
requestStateDone == "Done"

StateRank(s) ==
    CASE s = requestStateInitialized -> 0
      [] s = requestStateParsingHeaders -> 1
      [] s = requestStateParsingBody -> 2
      [] s = requestStateDone -> 3

bufferSize == 8

NoRequestLine == [Method |-> <<>>, RequestTarget |-> <<>>, HttpVersion |-> <<>>]

ErrRequestLine == "poorly formatted request-line"
ErrMethod == "invalid method"
ErrStartLine == "malformed start-line"
ErrVersion == "unrecognized HTTP-version"
ErrContentLength == "invalid content-length header"
ErrBodyLength == "error: body length greater than Content-Length"
ErrDoneState == "error: trying to read data in a done state"
ErrIncomplete == "incomplete request"

requestLineFromString_NonEmptyMethod(str) ==
    LET parts        == Split(str, SP)
        method       == parts[1]
        versionParts == Split(parts[3], "/")
    IN  IF Len(parts) # 3 THEN [rl |-> NoRequestLine, err |-> ErrRequestLine]
        ELSE IF method = <<>> \/ \E i \in DOMAIN method : ~IsUpper(method[i])
             THEN [rl |-> NoRequestLine, err |-> ErrMethod]
        ELSE IF Len(versionParts) # 2 THEN [rl |-> NoRequestLine, err |-> ErrStartLine]
        ELSE IF versionParts[1] # <<"H", "T", "T", "P">>
             THEN [rl |-> NoRequestLine, err |-> ErrVersion]
        ELSE IF versionParts[2] # <<"1", ".", "1">>
             THEN [rl |-> NoRequestLine, err |-> ErrVersion]
        ELSE [rl |-> [Method |-> method, RequestTarget |-> parts[2],
                      HttpVersion |-> versionParts[2]],
              err |-> NoErr]

\* requestLineFromString: the range loop over method accepts every byte of it,
\* so it accepts the empty method too
requestLineFromString(str) ==
    LET parts        == Split(str, SP)
        method       == parts[1]
        versionParts == Split(parts[3], "/")
    IN  IF Len(parts) # 3 THEN [rl |-> NoRequestLine, err |-> ErrRequestLine]
        ELSE IF \E i \in DOMAIN method : ~IsUpper(method[i])
             THEN [rl |-> NoRequestLine, err |-> ErrMethod]
        ELSE IF Len(versionParts) # 2 THEN [rl |-> NoRequestLine, err |-> ErrStartLine]
        ELSE IF versionParts[1] # <<"H", "T", "T", "P">>
             THEN [rl |-> NoRequestLine, err |-> ErrVersion]
        ELSE IF versionParts[2] # <<"1", ".", "1">>
             THEN [rl |-> NoRequestLine, err |-> ErrVersion]
        ELSE [rl |-> [Method |-> method, RequestTarget |-> parts[2],
                      HttpVersion |-> versionParts[2]],
              err |-> NoErr]

parseRequestLine_ErrorWithoutCRLF(data) ==
    LET idx == IndexOf(data, crlf)
        res == requestLineFromString(Slice(data, 0, idx))
    IN  IF idx = -1 THEN [rl |-> NoRequestLine, n |-> 0, err |-> ErrRequestLine]
        ELSE IF res.err # NoErr THEN [rl |-> NoRequestLine, n |-> 0, err |-> res.err]
        ELSE [rl |-> res.rl, n |-> idx + 2, err |-> NoErr]

\* parseRequestLine: n = 0 and no error when the line is not complete yet
parseRequestLine(data) ==
    LET idx == IndexOf(data, crlf)
        res == requestLineFromString(Slice(data, 0, idx))
    IN  IF idx = -1 THEN [rl |-> NoRequestLine, n |-> 0, err |-> NoErr]
        ELSE IF res.err # NoErr THEN [rl |-> NoRequestLine, n |-> 0, err |-> res.err]
        ELSE [rl |-> res.rl, n |-> idx + 2, err |-> NoErr]

contentLengthKey == <<"c", "o", "n", "t", "e", "n", "t", "-", "l", "e", "n", "g", "t", "h">>

parseBody_DoneAtOrPast(r, data) ==
    LET body == r.Body \o data
        cl   == Atoi(r.Headers[contentLengthKey])
        r1   == [r EXCEPT !.Body = body]
    IN  IF ~HasKey(r.Headers, contentLengthKey)
        THEN [req |-> [r EXCEPT !.state = requestStateDone], n |-> Len(data), err |-> NoErr]
        ELSE IF cl.err # NoErr THEN [req |-> r1, n |-> 0, err |-> ErrContentLength]
        ELSE IF Len(body) >= cl.n
             THEN [req |-> [r1 EXCEPT !.state = requestStateDone], n |-> Len(data), err |-> NoErr]
        ELSE [req |-> r1, n |-> Len(data), err |-> NoErr]

parseBody_WaitForData(r, data) ==
    LET body == r.Body \o data
        cl   == Atoi(r.Headers[contentLengthKey])
        r1   == [r EXCEPT !.Body = body]
    IN  IF ~HasKey(r.Headers, contentLengthKey)
        THEN [req |-> [r EXCEPT !.state = IF data = <<>> THEN r.state ELSE requestStateDone],
              n |-> Len(data), err |-> NoErr]
        ELSE IF cl.err # NoErr THEN [req |-> r1, n |-> 0, err |-> ErrContentLength]
        ELSE IF Len(body) > cl.n THEN [req |-> r1, n |-> 0, err |-> ErrBodyLength]
        ELSE IF Len(body) = cl.n
             THEN [req |-> [r1 EXCEPT !.state = requestStateDone], n |-> Len(data), err |-> NoErr]
        ELSE [req |-> r1, n |-> Len(data), err |-> NoErr]

\* the ParsingBody case of parseSingle
parseBody(r, data) ==
    LET body == r.Body \o data
        cl   == Atoi(r.Headers[contentLengthKey])
        r1   == [r EXCEPT !.Body = body]
    IN  IF ~HasKey(r.Headers, contentLengthKey)
        THEN [req |-> [r EXCEPT !.state = requestStateDone], n |-> Len(data), err |-> NoErr]
        ELSE IF cl.err # NoErr THEN [req |-> r1, n |-> 0, err |-> ErrContentLength]
        ELSE IF Len(body) > cl.n THEN [req |-> r1, n |-> 0, err |-> ErrBodyLength]
        ELSE IF Len(body) = cl.n
             THEN [req |-> [r1 EXCEPT !.state = requestStateDone], n |-> Len(data), err |-> NoErr]
        ELSE [req |-> r1, n |-> Len(data), err |-> NoErr]

parseSingle_HeadersToDone(r, data) ==
    CASE r.state = requestStateInitialized ->
            LET res == parseRequestLine(data)
            IN  IF res.err # NoErr THEN [req |-> r, n |-> 0, err |-> res.err]
                ELSE IF res.n = 0 THEN [req |-> r, n |-> 0, err |-> NoErr]
                ELSE [req |-> [r EXCEPT !.RequestLine = res.rl,
                                        !.state = requestStateParsingHeaders],
                      n |-> res.n, err |-> NoErr]
      [] r.state = requestStateParsingHeaders ->
            LET res == HeadersParse(r.Headers, data)
            IN  IF res.err # NoErr THEN [req |-> r, n |-> 0, err |-> res.err]
                ELSE [req |-> [r EXCEPT !.Headers = res.h,
                                        !.state = IF res.done /\ ~HasKey(res.h, contentLengthKey)
                                                  THEN requestStateDone
                                                  ELSE IF res.done THEN requestStateParsingBody
                                                  ELSE r.state],
                      n |-> res.n, err |-> NoErr]
      [] r.state = requestStateParsingBody -> parseBody(r, data)
      [] r.state = requestStateDone -> [req |-> r, n |-> 0, err |-> ErrDoneState]

\* Request.parseSingle: one section of the request, by the current state
parseSingle(r, data) ==
    CASE r.state = requestStateInitialized ->
            LET res == parseRequestLine(data)
            IN  IF res.err # NoErr THEN [req |-> r, n |-> 0, err |-> res.err]
                ELSE IF res.n = 0 THEN [req |-> r, n |-> 0, err |-> NoErr]
                ELSE [req |-> [r EXCEPT !.RequestLine = res.rl,
                                        !.state = requestStateParsingHeaders],
                      n |-> res.n, err |-> NoErr]
      [] r.state = requestStateParsingHeaders ->
            LET res == HeadersParse(r.Headers, data)
            IN  IF res.err # NoErr THEN [req |-> r, n |-> 0, err |-> res.err]
                ELSE [req |-> [r EXCEPT !.Headers = res.h,
                                        !.state = IF res.done THEN requestStateParsingBody
                                                  ELSE r.state],
                      n |-> res.n, err |-> NoErr]
      [] r.state = requestStateParsingBody -> parseBody(r, data)
      [] r.state = requestStateDone -> [req |-> r, n |-> 0, err |-> ErrDoneState]

RECURSIVE parseFrom(_, _, _, _)

\* the body of parse's loop after parseSingle returned res; trail lists the state
\* parse was entered in and the state after each parseSingle call so far
parseStep(res, data, totalBytesParsed, trail) ==
    IF res.err # NoErr
    THEN [req |-> res.req, n |-> 0, err |-> res.err, trail |-> Append(trail, res.req.state)]
    ELSE IF res.n = 0
    THEN [req |-> res.req, n |-> totalBytesParsed, err |-> NoErr,
          trail |-> Append(trail, res.req.state)]
    ELSE parseFrom(res.req, data, totalBytesParsed + res.n, Append(trail, res.req.state))

\* parse's loop, entered with totalBytesParsed bytes of data consumed
parseFrom(r, data, totalBytesParsed, trail) ==
    IF r.state = requestStateDone
    THEN [req |-> r, n |-> totalBytesParsed, err |-> NoErr, trail |-> trail]
    ELSE parseStep(parseSingle(r, From(data, totalBytesParsed)), data, totalBytesParsed, trail)

parse_SinglePass(r, data) ==
    LET res == parseSingle(r, data)
    IN  IF r.state = requestStateDone
        THEN [req |-> r, n |-> 0, err |-> NoErr, trail |-> <<r.state>>]
        ELSE [req |-> res.req, n |-> res.n, err |-> res.err, trail |-> <<r.state, res.req.state>>]

\* Request.parse: parseSingle until the state is Done or no progress is made
parse(r, data) == parseFrom(r, data, 0, <<r.state>>)

-----------------------------------------------------------------------------
(* The requests offered to the parser.                                     *)

MaxHeaders == 2     \* header lines per request
MaxBody == 3        \* body bytes following the header section

HTTP11 == <<"H", "T", "T", "P", "/", "1", ".", "1">>
LineGet == <<"G", "E", "T", SP, "/", SP>> \o HTTP11
LinePost == <<"P", "O", "S", "T", SP, "/", "A", "%", "b", "?", "x", "=", "Y", SP>> \o HTTP11
LineNoTarget == <<"G", "E", "T", SP, SP>> \o HTTP11
LineNoMethod == <<SP, "/", SP>> \o HTTP11
LineLowerMethod == <<"g", "e", "t", SP, "/", SP>> \o HTTP11
LineMixedMethod == <<"G", "e", "T", SP, "/", SP>> \o HTTP11
LineTwoTokens == <<"G", "E", "T", SP, "/">>
LineFourTokens == <<"G", "E", "T", SP, "/", SP, "x", SP>> \o HTTP11
LineDoubleSpace == <<"G", "E", "T", SP, SP, "/", SP>> \o HTTP11
LineHttp10 == <<"G", "E", "T", SP, "/", SP, "H", "T", "T", "P", "/", "1", ".", "0">>
LineLowerHttp == <<"G", "E", "T", SP, "/", SP, "h", "t", "t", "p", "/", "1", ".", "1">>
LineNoSlash == <<"G", "E", "T", SP, "/", SP, "H", "T", "T", "P", "1", ".", "1">>
LineTwoSlashes == <<"G", "E", "T", SP, "/", SP>> \o HTTP11 \o <<"/", "1">>

\* request lines that head a full request (headers and body of every shape)
MainLines == {LineGet}
\* request lines tried with no headers and no body
OtherLines == {LinePost, LineNoTarget, LineNoMethod, LineLowerMethod, LineMixedMethod,
               LineTwoTokens, LineFourTokens, LineDoubleSpace, LineHttp10,
               LineLowerHttp, LineNoSlash, LineTwoSlashes}

ContentLengthName == <<"C", "o", "n", "t", "e", "n", "t", "-", "L", "e", "n", "g", "t", "h">>
ContentLengthLine(n) == ContentLengthName \o <<":", SP>> \o DecDigits(n)

HdrHost == <<"H", "o", "s", "t", ":", SP, "h", ":", "1">>
HdrSpaceBeforeColon == <<"H", "o", "s", "t", SP, ":", SP, "h">>
HdrBadToken == <<"H", "@", "s", "t", ":", SP, "h">>
HdrNoColon == <<"H", "o", "s", "t">>
HdrBadLength == ContentLengthName \o <<":", SP, "x">>

GoodHeaderLines == {HdrHost, ContentLengthLine(1), ContentLengthLine(2)}
HeaderLines == GoodHeaderLines \cup {HdrSpaceBeforeColon, HdrBadToken, HdrNoColon, HdrBadLength}

BodyBytes == <<"b", "o", "d", "y", "B", "O", "D", "Y">>

SeqsUpTo(S, n) == UNION {[1..k -> S] : k \in 0..n}

\* bytes cut off the end of the wire form (the peer closes early)
Cuts == {0, 1, 3}

Sources ==
    {[line |-> l, hdrs |-> hs, body |-> SubSeq(BodyBytes, 1, b), cut |-> 0] :
        l \in MainLines, hs \in SeqsUpTo(HeaderLines, MaxHeaders), b \in 0..MaxBody}
    \cup {[line |-> l, hdrs |-> <<>>, body |-> <<>>, cut |-> c] :
        l \in MainLines \cup OtherLines, c \in Cuts}

RECURSIVE JoinLines(_)
JoinLines(ls) == IF ls = <<>> THEN <<>> ELSE ls[1] \o crlf \o JoinLines(Tail(ls))

\* the bytes on the wire: request line, header lines, blank line, body
Wire(s) ==
    LET all == s.line \o crlf \o JoinLines(s.hdrs) \o crlf \o s.body
    IN  SubSeq(all, 1, Len(all) - s.cut)

-----------------------------------------------------------------------------
(* RequestFromReader, one loop iteration per step.                         *)

\* the readers the same bytes are parsed with, one run after the other:
\* one byte per read, eight bytes per read, as many bytes as fit per read
ReaderOrder == <<"one", "eight", "fit">>
ReaderKinds == Range(ReaderOrder)

\* the sizes reader.Read(p) may return for len(p) = free with `left` bytes to come
\* (left > 0; at the end of the input Read returns 0, io.EOF)
ReadSizes(kind, free, left) ==
    CASE kind = "one" -> {1}
      [] kind = "eight" -> {Min(8, Min(free, left))}
      [] kind = "fit" -> {Min(free, left)}

ZeroByte == "NUL"

\* make([]byte, n)
MakeBytes(n) == [i \in 1..n |-> ZeroByte]

\* the buffer the read is issued on: doubled when it is full
Grow(b, rti) ==
    IF rti >= Len(b) THEN b \o MakeBytes(Len(b)) ELSE b

\* copy(dst[at:], bytes)
CopyAt(dst, at, bytes) ==
    [i \in 1..Len(dst) |-> IF i > at /\ i <= at + Len(bytes) THEN bytes[i - at] ELSE dst[i]]

Shift_None(b, n) == b

\* copy(buf, buf[n:]): the bytes from n on move to the front, the tail is left as it was
Shift(b, n) == CopyAt(b, 0, From(b, n))

NewRequest ==
    [state |-> requestStateInitialized, RequestLine |-> NoRequestLine,
     Headers |-> NewHeaders, Body |-> <<>>]

NoPass ==
    [read |-> 0, parsed |-> 0, eof |-> FALSE, free |-> 0, before |-> requestStateInitialized,
     trail |-> <<requestStateInitialized>>]

\* no parse call made on the returned Request
NoFeed == [called |-> FALSE, data |-> <<>>, n |-> 0, err |-> NoErr, single |-> NoErr,
           after |-> requestStateInitialized]

\* bytes fed to a Request that is Done already
ExtraBytes == {<<"x">>, crlf}

\* what the caller of RequestFromReader gets
Outcome(st, e, r) ==
    [status |-> st, err |-> e, req |-> IF st = "ok" THEN r ELSE NewRequest]

\* no run with this reader yet
NotRun == [status |-> "none", err |-> NoErr, req |-> NewRequest]

StartRun(k) ==
    /\ status # "running"
    /\ outcomes[ReaderOrder[k]] = NotRun
    /\ \A j \in 1..(k - 1) : outcomes[ReaderOrder[j]] # NotRun
    /\ reader' = ReaderOrder[k]
    /\ pos' = 0
    /\ buf' = MakeBytes(bufferSize)
    /\ readToIndex' = 0
    /\ req' = NewRequest
    /\ status' = "running"
    /\ perr' = NoErr
    /\ lastPass' = NoPass
    /\ fed' = NoFeed
    /\ UNCHANGED <<src, outcomes>>

Finish(st, e, r) ==
    /\ status' = st
    /\ perr' = e
    /\ outcomes' = [outcomes EXCEPT ![reader] = Outcome(st, e, r)]

ReadEOF_ReturnPartial ==
    /\ status = "running"
    /\ pos = Len(Wire(src))
    /\ buf' = Grow(buf, readToIndex)
    /\ lastPass' = [read |-> 0, parsed |-> 0, eof |-> TRUE,
                    free |-> Len(buf') - readToIndex, before |-> req.state,
                    trail |-> <<req.state>>]
    /\ Finish("ok", NoErr, req)
    /\ UNCHANGED <<src, reader, pos, readToIndex, req, fed>>

\* Read returned 0, io.EOF: the request is incomplete (the loop runs only while
\* the state is not Done)
ReadEOF ==
    /\ status = "running"
    /\ pos = Len(Wire(src))
    /\ buf' = Grow(buf, readToIndex)
    /\ lastPass' = [read |-> 0, parsed |-> 0, eof |-> TRUE,
                    free |-> Len(buf') - readToIndex, before |-> req.state,
                    trail |-> <<req.state>>]
    /\ Finish("err", ErrIncomplete, req)
    /\ UNCHANGED <<src, reader, pos, readToIndex, req, fed>>

\* Read returned n bytes: parse the buffer, shift the rest to the front
ReadAndParse ==
    /\ status = "running"
    /\ pos < Len(Wire(src))
    /\ LET grown == Grow(buf, readToIndex)
           free  == Len(grown) - readToIndex
       IN  \E n \in ReadSizes(reader, free, Len(Wire(src)) - pos) :
             LET filled == CopyAt(grown, readToIndex, SubSeq(Wire(src), pos + 1, pos + n))
                 rti    == readToIndex + n
                 res    == parse(req, Slice(filled, 0, rti))
             IN  /\ pos' = pos + n
                 /\ req' = res.req
                 /\ lastPass' = [read |-> n, parsed |-> res.n, eof |-> FALSE,
                                 free |-> free, before |-> req.state, trail |-> res.trail]
                 /\ IF res.err # NoErr
                    THEN /\ buf' = filled
                         /\ readToIndex' = rti
                         /\ Finish(IF IsPanic(res.err) THEN "panic" ELSE "err", res.err, res.req)
                    ELSE /\ buf' = Shift(filled, res.n)
                         /\ readToIndex' = rti - res.n
                         /\ IF res.req.state = requestStateDone
                            THEN Finish("ok", NoErr, res.req)
                            ELSE UNCHANGED <<status, perr, outcomes>>
    /\ UNCHANGED <<src, reader, fed>>

\* r.parse(data) and r.parseSingle(data) called on the Request RequestFromReader
\* returned, whose state is Done
FeedDone(data) ==
    /\ status = "ok"
    /\ ~fed.called
    /\ fed' = [called |-> TRUE, data |-> data, n |-> parse(req, data).n,
               err |-> parse(req, data).err, single |-> parseSingle(req, data).err,
               after |-> parse(req, data).req.state]
    /\ req' = parse(req, data).req
    /\ UNCHANGED <<src, reader, pos, buf, readToIndex, status, perr, lastPass, outcomes>>

ParserInit ==
    /\ src \in Sources
    /\ reader = "one"
    /\ pos = 0
    /\ buf = MakeBytes(bufferSize)
    /\ readToIndex = 0
    /\ req = NewRequest
    /\ status = "idle"
    /\ perr = NoErr
    /\ lastPass = NoPass
    /\ outcomes = [k \in ReaderKinds |-> NotRun]
    /\ fed = NoFeed

ParserIdle ==
    /\ src = [line |-> LineGet, hdrs |-> <<>>, body |-> <<>>, cut |-> 0]
    /\ reader = "one"
    /\ pos = 0
    /\ buf = MakeBytes(bufferSize)
    /\ readToIndex = 0
    /\ req = NewRequest
    /\ status = "idle"
    /\ perr = NoErr
    /\ lastPass = NoPass
    /\ outcomes = [k \in ReaderKinds |-> NotRun]
    /\ fed = NoFeed


-----------------------------------------------------------------------------
(* The header table driven directly: Parse and Set on one table.           *)

MaxInserts == 3     \* Parse / Set calls on one table

HdrCookieA == <<"S", "e", "t", "-", "C", "o", "o", "k", "i", "e", ":", SP, "a">>
HdrCookieB == <<"s", "e", "t", "-", "c", "o", "o", "k", "i", "e", ":", "b", SP>>
HdrTrailingSpaceNoColon == <<"H", "o", "s", "t", SP>>
HdrTabBeforeColon == <<"H", "o", "s", "t", "\t", ":", SP, "h">>
HdrLeadingSpace == <<SP, "H", "o", "s", "t", ":", SP, "h">>

\* what Parse is called on: complete lines, the blank line, a line still incomplete
ParseInputs ==
    {l \o crlf : l \in HeaderLines \cup {HdrCookieA, HdrCookieB, HdrTrailingSpaceNoColon,
                                         HdrTabBeforeColon, HdrLeadingSpace}}
    \cup {HdrHost \o crlf \o HdrCookieA \o crlf, crlf, crlf \o HdrHost \o crlf, HdrHost, <<>>}

SetKeys == {<<"H", "o", "s", "t">>, <<"h", "O", "S", "T">>, <<"a">>}
SetValues == {<<"h">>, <<"v", ",", "w">>}
GetKeys == SetKeys \cup {<<"H", "O", "S", "T">>, <<"s", "e", "t", "-", "c", "o", "o", "k", "i", "e">>, <<"b">>}

\* what ParseAll is called on: complete sections (one with body bytes after the
\* blank line), sections with a bad line, a section without its blank line, a
\* line without its CRLF
ParseAllInputs ==
    {JoinLines(ls) \o crlf : ls \in {<<>>, <<HdrHost>>, <<HdrHost, HdrCookieA>>,
                                     <<HdrCookieA, HdrCookieB>>, <<HdrSpaceBeforeColon>>,
                                     <<HdrHost, HdrBadToken>>, <<HdrTabBeforeColon>>}}
    \cup {HdrHost \o crlf \o crlf \o <<"b", "o">>, HdrHost \o crlf, HdrHost}

NoHeaderCall ==
    [op |-> "none", data |-> <<>>, value |-> <<>>, n |-> 0, done |-> FALSE, err |-> NoErr,
     returns |-> TRUE, before |-> NewHeaders]

HeadersInit ==
    /\ hdr = NewHeaders
    /\ hcall = NoHeaderCall
    /\ hsets = 0

\* h.Parse(data): a panic unwinds before the table is touched
DoParse(data) ==
    /\ hsets < MaxInserts
    /\ LET res == HeadersParse(hdr, data)
       IN  /\ hdr' = res.h
           /\ hcall' = [op |-> "Parse", data |-> data, value |-> <<>>, n |-> res.n,
                        done |-> res.done, err |-> res.err, returns |-> TRUE, before |-> hdr]
    /\ hsets' = hsets + 1

\* h.Set(key, value)
DoSet(key, value) ==
    /\ hsets < MaxInserts
    /\ hdr' = Set(hdr, key, value)
    /\ hcall' = [op |-> "Set", data |-> key, value |-> value, n |-> 0, done |-> FALSE,
                 err |-> NoErr, returns |-> TRUE, before |-> hdr]
    /\ hsets' = hsets + 1

\* h.ParseAll(data)
DoParseAll(data) ==
    /\ hsets < MaxInserts
    /\ LET res == ParseAll(hdr, data)
       IN  /\ hdr' = res.h
           /\ hcall' = [op |-> "ParseAll", data |-> data, value |-> <<>>, n |-> res.n,
                        done |-> FALSE, err |-> res.err, returns |-> res.returns,
                        before |-> hdr]
    /\ hsets' = hsets + 1

\* h.Get(key): value is what the call returns
DoGet(key) ==
    /\ hcall' = [op |-> "Get", data |-> key, value |-> Get(hdr, key), n |-> 0, done |-> FALSE,
                 err |-> NoErr, returns |-> TRUE, before |-> hdr]
    /\ UNCHANGED <<hdr, hsets>>


-----------------------------------------------------------------------------
(* The response writer: package response.                                  *)

writerStateStatusLine == "StatusLine"
writerStateHeaders == "Headers"
writerStateBody == "Body"
writerStateTrailers == "Trailers"

WriterRank(s) ==
    CASE s = writerStateStatusLine -> 0
      [] s = writerStateHeaders -> 1
      [] s = writerStateBody -> 2
      [] s = writerStateTrailers -> 3

\* the two kinds of error a writer operation returns
ErrWriterState == "cannot write in this state"
ErrSink == "sink write failed"

RECURSIVE Concat(_)
Concat(ss) == IF ss = <<>> THEN <<>> ELSE ss[1] \o Concat(Tail(ss))

\* A writer operation issues its sink writes in order and stops at the first that
\* fails; `fail` is the index of the write the sink refuses (0: none; a refused
\* write appends nothing). Returns the bytes appended and the error.
SinkWrites(writes, fail) ==
    IF fail \in 1..Len(writes)
    THEN [out |-> Concat(SubSeq(writes, 1, fail - 1)), err |-> ErrSink]
    ELSE [out |-> Concat(writes), err |-> NoErr]

ReasonPhrase(code) ==
    CASE code = 200 -> <<"O", "K">>
      [] code = 400 -> <<"B", "a", "d", SP, "R", "e", "q", "u", "e", "s", "t">>
      [] code = 500 -> <<"I", "n", "t", "e", "r", "n", "a", "l", SP, "S", "e", "r", "v", "e", "r",
                         SP, "E", "r", "r", "o", "r">>
      [] OTHER -> <<>>

\* getStatusLine: "HTTP/1.1 <code> <reason>\r\n", the bare code when it is unknown
getStatusLine(code) ==
    HTTP11 \o <<SP>> \o DecDigits(code)
    \o (IF ReasonPhrase(code) = <<>> THEN <<>> ELSE <<SP>> \o ReasonPhrase(code)) \o crlf

FieldLine_NoSpace(k, v) == k \o <<":">> \o v \o crlf

\* fmt.Sprintf("%s: %s\r\n", k, v)
FieldLine(k, v) == k \o <<":", SP>> \o v \o crlf

\* the writes of `for k, v := range h { ... }` followed by the blank line; Go's map
\* iteration order is unspecified: `order` is the order this call iterates in
FieldWrites(h, order) == [i \in 1..Len(order) |-> FieldLine(order[i], h[order[i]])] \o <<crlf>>

\* the orders a range over h may take: the permutations of its keys
Orders(h) ==
    {o \in [1..Cardinality(DOMAIN h) -> DOMAIN h] :
        \A i, j \in DOMAIN o : i # j => o[i] # o[j]}

Refused(st) == [state |-> st, out |-> <<>>, err |-> ErrWriterState, n |-> 0]

Wrote(st, w, n) == [state |-> st, out |-> w.out, err |-> w.err, n |-> n]

WriteStatusLine_Unguarded(st, statusCode, fail) ==
    Wrote(writerStateHeaders, SinkWrites(<<getStatusLine(statusCode)>>, fail), 0)

WriteStatusLine_AdvanceOnSuccess(st, statusCode, fail) ==
    IF st # writerStateStatusLine THEN Refused(st)
    ELSE LET w == SinkWrites(<<getStatusLine(statusCode)>>, fail)
         IN  Wrote(IF w.err = NoErr THEN writerStateHeaders ELSE st, w, 0)

WriteStatusLine(st, statusCode, fail) ==
    IF st # writerStateStatusLine THEN Refused(st)
    ELSE Wrote(writerStateHeaders, SinkWrites(<<getStatusLine(statusCode)>>, fail), 0)

WriteHeaders_Unguarded(st, h, order, fail) ==
    Wrote(writerStateBody, SinkWrites(FieldWrites(h, order), fail), 0)

WriteHeaders(st, h, order, fail) ==
    IF st # writerStateHeaders THEN Refused(st)
    ELSE Wrote(writerStateBody, SinkWrites(FieldWrites(h, order), fail), 0)

WriteBody_StayInBody(st, p, fail) ==
    IF st # writerStateBody THEN Refused(st)
    ELSE LET w == SinkWrites(<<p>>, fail)
         IN  Wrote(writerStateBody, w, Len(w.out))

WriteBody(st, p, fail) ==
    IF st # writerStateBody THEN Refused(st)
    ELSE LET w == SinkWrites(<<p>>, fail)
         IN  Wrote(writerStateTrailers, w, Len(w.out))

WriteTrailers_BackToBody(st, h, order, fail) ==
    IF st # writerStateTrailers THEN Refused(st)
    ELSE Wrote(writerStateBody, SinkWrites(FieldWrites(h, order), fail), 0)

WriteTrailers(st, h, order, fail) ==
    IF st # writerStateTrailers THEN Refused(st)
    ELSE Wrote(writerStateTrailers, SinkWrites(FieldWrites(h, order), fail), 0)

WriteChunkedBody_Decimal(st, p, fail) ==
    IF st # writerStateBody THEN Refused(st)
    ELSE LET w == SinkWrites(<<DecDigits(Len(p)) \o crlf, p, crlf>>, fail)
         IN  Wrote(writerStateBody, w, IF fail \in 1..2 THEN 0 ELSE Len(p))

WriteChunkedBody(st, p, fail) ==
    IF st # writerStateBody THEN Refused(st)
    ELSE LET w == SinkWrites(<<HexString(Len(p)) \o crlf, p, crlf>>, fail)
         IN  Wrote(writerStateBody, w, IF fail \in 1..2 THEN 0 ELSE Len(p))

WriteChunkedBodyDone_StayInBody(st, fail) ==
    IF st # writerStateBody THEN Refused(st)
    ELSE Wrote(writerStateBody, SinkWrites(<<<<"0">> \o crlf \o crlf>>, fail), 5)

WriteChunkedBodyDone(st, fail) ==
    IF st # writerStateBody THEN Refused(st)
    ELSE Wrote(writerStateTrailers, SinkWrites(<<<<"0">> \o crlf>>, fail), 3)

MaxCalls == 5       \* writer calls that pass their state guard
MaxSinkFailures == 1 \* writes the sink refuses

StatusCodes == {200}

ContentLength4 == (contentLengthKey :> <<"4">>)
TwoFields == (<<"a">> :> <<"1">>) @@ (<<"b">> :> <<"2">>)
Tables == {NewHeaders, ContentLength4, TwoFields}

\* the tables written as trailers
TrailerTables == {NewHeaders, TwoFields}

Payloads == {<<>>, <<"b", "o", "d", "y">>}

\* the chunks written: the empty one, and one whose length is not a decimal digit
Chunks == {<<>>, <<"h", "e", "l", "l", "o", " ", "w", "o", "r", "l", "d">>}

BodyOps == {"WriteBody", "WriteChunkedBody", "WriteChunkedBodyDone"}

NoWriterCall == [op |-> "none", before |-> writerStateStatusLine, err |-> NoErr, out |-> <<>>]

WriterInit ==
    /\ writerState = writerStateStatusLine
    /\ sink = <<>>
    /\ wcall = NoWriterCall
    /\ wfails = 0
    /\ whist = <<>>
    /\ wlog = <<>>

\* the sink refusals worth trying on a call with k sink writes: a call the state
\* guard refuses reaches no sink write, so only fail = 0 is tried on it
Fails(required, k) == IF writerState = required THEN 0..k ELSE {0}

\* one call on the writer, with what it returned
Call(op, arg, res) ==
    /\ res.err = ErrWriterState \/ Len(whist) < MaxCalls
    /\ res.err = ErrSink => wfails < MaxSinkFailures
    /\ wfails' = IF res.err = ErrSink THEN wfails + 1 ELSE wfails
    /\ writerState' = res.state
    /\ sink' = sink \o res.out
    /\ wcall' = [op |-> op, before |-> writerState, err |-> res.err, out |-> res.out]
    /\ whist' = IF res.err = ErrWriterState THEN whist
                ELSE Append(whist, [op |-> op, err |-> res.err])
    /\ wlog' = IF res.err = ErrWriterState THEN wlog
               ELSE Append(wlog, [arg |-> arg, out |-> res.out])

CallWriteStatusLine ==
    \E code \in StatusCodes, fail \in Fails(writerStateStatusLine, 1) :
        Call("WriteStatusLine", code, WriteStatusLine(writerState, code, fail))

CallWriteHeaders ==
    \E h \in Tables : \E order \in Orders(h),
                        fail \in Fails(writerStateHeaders, Cardinality(DOMAIN h) + 1) :
        Call("WriteHeaders", h, WriteHeaders(writerState, h, order, fail))

CallWriteBody ==
    \E p \in Payloads, fail \in Fails(writerStateBody, 1) :
        Call("WriteBody", p, WriteBody(writerState, p, fail))

CallWriteChunkedBody ==
    \E p \in Chunks, fail \in Fails(writerStateBody, 3) :
        Call("WriteChunkedBody", p, WriteChunkedBody(writerState, p, fail))

CallWriteChunkedBodyDone ==
    \E fail \in Fails(writerStateBody, 1) :
        Call("WriteChunkedBodyDone", <<>>, WriteChunkedBodyDone(writerState, fail))

CallWriteTrailers ==
    \E h \in TrailerTables : \E order \in Orders(h),
                        fail \in Fails(writerStateTrailers, Cardinality(DOMAIN h) + 1) :
        Call("WriteTrailers", h, WriteTrailers(writerState, h, order, fail))


-----------------------------------------------------------------------------
(* The connection server: package server.                                  *)

MaxCloseCalls == 2  \* calls of Server.Close
MaxConns == 2       \* connections that arrive

CloseCalls == 1..MaxCloseCalls
Conns == 1..MaxConns

ErrNetClosed == "use of closed network connection"

NoCloseInfo == [ret |-> "pending", afterReturn |-> FALSE, touched |-> FALSE]

\* closes counts the conn.Close() calls the server has made on the connection
NoConn ==
    [status |-> "none", late |-> FALSE, flagAtAccept |-> FALSE, returnedAtAccept |-> FALSE,
     closes |-> 0]

\* what a worker has done so far: what RequestFromReader made of the bytes its
\* connection delivered, the handler invocations, the writer calls the
\* worker itself made on the connection
\* (input is the number of the request the peer sent, resp the names of the calls)
NoWork == [result |-> "none", err |-> NoErr, input |-> 0, handlerCalls |-> 0, resp |-> <<>>]

\* the requests peers send: a good one, a request line of two tokens, a header line
\* without a colon, a body longer than declared, a request cut off by the peer
ConnRequests ==
    <<[line |-> LineGet, hdrs |-> <<>>, body |-> <<>>, cut |-> 0],
      [line |-> LineTwoTokens, hdrs |-> <<>>, body |-> <<>>, cut |-> 0],
      [line |-> LineGet, hdrs |-> <<HdrNoColon>>, body |-> <<>>, cut |-> 0],
      [line |-> LineGet, hdrs |-> <<ContentLengthLine(1)>>, body |-> <<"b", "o">>, cut |-> 0],
      [line |-> LineGet, hdrs |-> <<>>, body |-> <<>>, cut |-> 1]>>

\* the requests by number
ConnInputs == DOMAIN ConnRequests

\* err.Error() of the errors the requests of ConnInputs run into: the format
\* strings of fmt.Errorf with their arguments; data is what parse was called on,
\* state and n are what the end-of-input branch formats with %d
ErrorText(err, data, state, n) ==
    CASE err = ErrRequestLine ->
            <<"p", "o", "o", "r", "l", "y", SP, "f", "o", "r", "m", "a", "t", "t", "e",
              "d", SP, "r", "e", "q", "u", "e", "s", "t", "-", "l", "i", "n", "e", ":", SP>>
            \o Slice(data, 0, IndexOf(data, crlf))
      [] err = ErrBodyLength ->
            <<"e", "r", "r", "o", "r", ":", SP, "b", "o", "d", "y", SP, "l", "e", "n", "g",
              "t", "h", SP, "g", "r", "e", "a", "t", "e", "r", SP, "t", "h", "a", "n", SP,
              "C", "o", "n", "t", "e", "n", "t", "-", "L", "e", "n", "g", "t", "h">>
      [] err = ErrIncomplete ->
            <<"i", "n", "c", "o", "m", "p", "l", "e", "t", "e", SP, "r", "e", "q", "u",
              "e", "s", "t", ",", SP, "i", "n", SP, "s", "t", "a", "t", "e", ":", SP>>
            \o DecDigits(StateRank(state))
            \o <<",", SP, "r", "e", "a", "d", SP, "n", SP, "b", "y", "t", "e", "s", SP, "o",
              "n", SP, "E", "O", "F", ":", SP>>
            \o DecDigits(n)
      [] IsPanic(err) -> <<>>

\* what RequestFromReader returns, with the text of the error
Returned(st, e, r, text) ==
    [status |-> st, err |-> e, req |-> IF st = "ok" THEN r ELSE NewRequest, text |-> text]

RECURSIVE ReadLoop(_, _, _, _, _)

\* RequestFromReader's loop after parse returned res on the filled buffer
ReadPass(wire, p, filled, rti, res) ==
    IF res.err # NoErr
    THEN Returned(IF IsPanic(res.err) THEN "panic" ELSE "err", res.err, res.req,
                  ErrorText(res.err, Slice(filled, 0, rti), res.req.state, 0))
    ELSE ReadLoop(wire, p, Shift(filled, res.n), rti - res.n, res.req)

\* one Read of n bytes into the grown buffer, then the parse pass
ReadInto(wire, p, grown, rti, r, n) ==
    ReadPass(wire, p + n, CopyAt(grown, rti, SubSeq(wire, p + 1, p + n)), rti + n,
             parse(r, Slice(CopyAt(grown, rti, SubSeq(wire, p + 1, p + n)), 0, rti + n)))

\* RequestFromReader's loop on a connection that delivers what fits per Read and
\* io.EOF once the peer's bytes are used up
ReadLoop(wire, p, b, rti, r) ==
    IF r.state = requestStateDone THEN Returned("ok", NoErr, r, <<>>)
    ELSE IF p = Len(wire) THEN Returned("err", ErrIncomplete, r, ErrorText(ErrIncomplete, <<>>, r.state, 0))
    ELSE ReadInto(wire, p, Grow(b, rti), rti, r, Min(Len(Grow(b, rti)) - rti, Len(wire) - p))

\* request.RequestFromReader(conn), run to its return (or its panic)
RequestFromReader(wire) == ReadLoop(wire, 0, MakeBytes(bufferSize), 0, NewRequest)

\* what RequestFromReader returns on each request a peer may send
ConnOutcomes == [input \in ConnInputs |-> RequestFromReader(Wire(ConnRequests[input]))]

\* some call of Close has returned
CloseReturned == \E k \in CloseCalls : closePc[k] = "done"

\* the connection has been returned by Accept
Taken(c) == conns[c].status \notin {"none", "pending", "refused"}

\* Serve: the listener is bound and the accept loop started
ServerInit ==
    /\ closed = FALSE
    /\ listener = "open"
    /\ listenPc = "accept"
    /\ closePc = [k \in CloseCalls |-> "idle"]
    /\ closeInfo = [k \in CloseCalls |-> NoCloseInfo]
    /\ conns = [c \in Conns |-> NoConn]
    /\ lclose = 0
    /\ work = [c \in Conns |-> NoWork]
    /\ proc = "up"

\* Close, first statement: s.closed.Store(true)
CloseStore(k) ==
    /\ proc = "up"
    /\ closePc[k] = "idle"
    /\ closed' = TRUE
    /\ closePc' = [closePc EXCEPT ![k] = "stored"]
    /\ closeInfo' = [closeInfo EXCEPT ![k].afterReturn = CloseReturned]
    /\ UNCHANGED <<listener, listenPc, conns, lclose, work, proc>>

CloseListener_FlagOnly(k) ==
    /\ proc = "up"
    /\ closePc[k] = "stored"
    /\ closePc' = [closePc EXCEPT ![k] = "done"]
    /\ closeInfo' = [closeInfo EXCEPT ![k].ret = NoErr]
    /\ UNCHANGED <<closed, listener, listenPc, conns, lclose, work, proc>>

CloseListener_DropConns(k) ==
    /\ proc = "up"
    /\ closePc[k] = "stored"
    /\ listener' = "closed"
    /\ lclose' = lclose + 1
    /\ closePc' = [closePc EXCEPT ![k] = "done"]
    /\ closeInfo' = [closeInfo EXCEPT ![k].ret = IF listener = "open" THEN NoErr ELSE ErrNetClosed,
                                      ![k].touched = TRUE]
    /\ conns' = [c \in Conns |->
                    IF conns[c].status \in {"accepted", "parsed", "failed"}
                    THEN [conns[c] EXCEPT !.status = "closed", !.closes = @ + 1]
                    ELSE conns[c]]
    /\ UNCHANGED <<closed, listenPc, work, proc>>

\* Close, second statement: return s.listener.Close() (the listener is never nil
\* after Serve). Closing a listener that is closed already returns an error.
CloseListener(k) ==
    /\ proc = "up"
    /\ closePc[k] = "stored"
    /\ listener' = "closed"
    /\ lclose' = lclose + 1
    /\ closePc' = [closePc EXCEPT ![k] = "done"]
    /\ closeInfo' = [closeInfo EXCEPT ![k].ret = IF listener = "open" THEN NoErr ELSE ErrNetClosed,
                                      ![k].touched = TRUE]
    /\ UNCHANGED <<closed, listenPc, conns, work, proc>>

\* a peer connects: queued while the socket listens, refused once it is closed
Connect(c) ==
    /\ conns[c].status = "none"
    /\ conns' = [conns EXCEPT ![c].status = IF listener = "open" THEN "pending" ELSE "refused",
                              ![c].late = CloseReturned]
    /\ UNCHANGED <<closed, listener, listenPc, closePc, closeInfo, lclose, work, proc>>

\* listen: Accept returns a connection (err == nil)
AcceptConn(c) ==
    /\ proc = "up"
    /\ listenPc = "accept"
    /\ listener = "open"
    /\ conns[c].status = "pending"
    /\ listenPc' = "spawn"
    /\ conns' = [conns EXCEPT ![c].status = "taken",
                              ![c].flagAtAccept = closed,
                              ![c].returnedAtAccept = CloseReturned]
    /\ UNCHANGED <<closed, listener, closePc, closeInfo, lclose, work, proc>>

\* listen: go s.handle(conn) starts the connection's worker, and the loop goes on
Spawn(c) ==
    /\ proc = "up"
    /\ listenPc = "spawn"
    /\ conns[c].status = "taken"
    /\ listenPc' = "accept"
    /\ conns' = [conns EXCEPT ![c].status = "accepted"]
    /\ UNCHANGED <<closed, listener, closePc, closeInfo, lclose, work, proc>>

\* listen: Accept returns an error (always once the listener is closed; at any time
\* for a transient failure)
AcceptError ==
    /\ proc = "up"
    /\ listenPc = "accept"
    /\ listenPc' = "failed"
    /\ UNCHANGED <<closed, listener, closePc, closeInfo, conns, lclose, work, proc>>

CheckClosed_ExitOnError ==
    /\ proc = "up"
    /\ listenPc = "failed"
    /\ listenPc' = "exited"
    /\ UNCHANGED <<closed, listener, closePc, closeInfo, conns, lclose, work, proc>>

CheckClosed_NeverExit ==
    /\ proc = "up"
    /\ listenPc = "failed"
    /\ listenPc' = "logged"
    /\ UNCHANGED <<closed, listener, closePc, closeInfo, conns, lclose, work, proc>>

\* listen: on an error, if s.closed.Load() { return }; otherwise the error is
\* unexpected and gets logged
CheckClosed ==
    /\ proc = "up"
    /\ listenPc = "failed"
    /\ listenPc' = IF closed THEN "exited" ELSE "logged"
    /\ UNCHANGED <<closed, listener, closePc, closeInfo, conns, lclose, work, proc>>

\* listen: log.Printf("Error accepting connection: %v", err); continue
LogError ==
    /\ proc = "up"
    /\ listenPc = "logged"
    /\ listenPc' = "accept"
    /\ UNCHANGED <<closed, listener, closePc, closeInfo, conns, lclose, work, proc>>

\* handle: req, err := request.RequestFromReader(conn) on the bytes the peer sends.
\* A panic inside it is recovered nowhere: it unwinds the worker's goroutine (the
\* deferred conn.Close() runs) and ends the process, with it the accept loop, the
\* listening socket and every other worker.
HandleRead(c, input) ==
    /\ proc = "up"
    /\ conns[c].status = "accepted"
    /\ LET out == ConnOutcomes[input]
       IN  /\ work' = [work EXCEPT ![c].result = out.status,
                                   ![c].err = out.err,
                                   ![c].input = input]
           /\ conns' = [conns EXCEPT ![c].status =
                            CASE out.status = "ok" -> "parsed"
                              [] out.status = "err" -> "failed"
                              [] out.status = "panic" -> "closed",
                                     ![c].closes = IF out.status = "panic" THEN @ + 1 ELSE @]
           /\ proc' = IF out.status = "panic" THEN "down" ELSE "up"
           /\ listener' = IF out.status = "panic" THEN "closed" ELSE listener
    /\ UNCHANGED <<closed, listenPc, closePc, closeInfo, lclose>>

\* response.GetDefaultHeaders(contentLen)
GetDefaultHeaders(contentLen) ==
    Set(Set(Set(NewHeaders,
                <<"C", "o", "n", "t", "e", "n", "t", "-", "L", "e", "n", "g", "t", "h">>, DecDigits(contentLen)),
            <<"C", "o", "n", "n", "e", "c", "t", "i", "o", "n">>, <<"c", "l", "o", "s", "e">>),
        <<"C", "o", "n", "t", "e", "n", "t", "-", "T", "y", "p", "e">>,
        <<"t", "e", "x", "t", "/", "p", "l", "a", "i", "n">>)

StatusCodeBadRequest == 400

\* body := []byte(fmt.Sprintf("Error parsing request: %v", err))
BadRequestBody(text) ==
    <<"E", "r", "r", "o", "r", SP, "p", "a", "r", "s", "i", "n", "g", SP, "r", "e", "q",
      "u", "e", "s", "t", ":", SP>> \o text

\* the writer calls of handle's error branch, on a fresh writer for the
\* connection; text is err.Error()
BadRequestCalls(text) ==
    <<[op |-> "WriteStatusLine", arg |-> StatusCodeBadRequest],
      [op |-> "WriteHeaders", arg |-> GetDefaultHeaders(Len(BadRequestBody(text)))],
      [op |-> "WriteBody", arg |-> BadRequestBody(text)]>>

\* the names of the calls
CallNames(calls) == [i \in DOMAIN calls |-> calls[i].op]

\* the calls of the error branch for each request a peer may send
ConnResponses == [input \in ConnInputs |-> BadRequestCalls(ConnOutcomes[input].text)]

\* err.Error() of the error RequestFromReader returned to the worker of c
ErrorOf(c) == ConnOutcomes[work[c].input].text

\* the bytes these calls put on a connection that accepts every write, when the
\* range over the header table runs in this order
ResponseBytes(calls, order) ==
    WriteStatusLine(writerStateStatusLine, calls[1].arg, 0).out
    \o WriteHeaders(writerStateHeaders, calls[2].arg, order, 0).out
    \o WriteBody(writerStateBody, calls[3].arg, 0).out

\* handle, err != nil: the worker writes the 400 response itself and returns
\* (deferred conn.Close())
HandleBadRequest(c) ==
    /\ proc = "up"
    /\ conns[c].status = "failed"
    /\ work' = [work EXCEPT ![c].resp = CallNames(ConnResponses[work[c].input])]
    /\ conns' = [conns EXCEPT ![c].status = "closed", ![c].closes = @ + 1]
    /\ UNCHANGED <<closed, listener, listenPc, closePc, closeInfo, lclose, proc>>

\* handle, err == nil: s.handler(w, req), then return (deferred conn.Close())
HandleInvoke(c) ==
    /\ proc = "up"
    /\ conns[c].status = "parsed"
    /\ work' = [work EXCEPT ![c].handlerCalls = @ + 1]
    /\ conns' = [conns EXCEPT ![c].status = "closed", ![c].closes = @ + 1]
    /\ UNCHANGED <<closed, listener, listenPc, closePc, closeInfo, lclose, proc>>


-----------------------------------------------------------------------------
(* The specifications: one per component, the others at rest.              *)

Init ==
    /\ ParserInit
    /\ HeadersInit
    /\ WriterInit
    /\ ServerInit

Next ==
    \/ \E k \in DOMAIN ReaderOrder : StartRun(k) /\ UNCHANGED <<hvars, wvars, svars>>
    \/ ReadEOF /\ UNCHANGED <<hvars, wvars, svars>>
    \/ ReadAndParse /\ UNCHANGED <<hvars, wvars, svars>>
    \/ \E data \in ExtraBytes : FeedDone(data) /\ UNCHANGED <<hvars, wvars, svars>>

\* the request parser, on every request of Sources and with every reader
Spec == Init /\ [][Next]_vars

HeaderInit ==
    /\ ParserIdle
    /\ HeadersInit
    /\ WriterInit
    /\ ServerInit

HeaderNext ==
    \/ \E data \in ParseInputs : DoParse(data) /\ UNCHANGED <<pvars, wvars, svars>>
    \/ \E key \in SetKeys, value \in SetValues : DoSet(key, value) /\ UNCHANGED <<pvars, wvars, svars>>
    \/ \E data \in ParseAllInputs : DoParseAll(data) /\ UNCHANGED <<pvars, wvars, svars>>
    \/ \E key \in GetKeys : DoGet(key) /\ UNCHANGED <<pvars, wvars, svars>>

\* the header table
SpecHeaders == HeaderInit /\ [][HeaderNext]_vars

WriteInit ==
    /\ ParserIdle
    /\ HeadersInit
    /\ WriterInit
    /\ ServerInit

WriteNext ==
    \/ CallWriteStatusLine /\ UNCHANGED <<pvars, hvars, svars>>
    \/ CallWriteHeaders /\ UNCHANGED <<pvars, hvars, svars>>
    \/ CallWriteBody /\ UNCHANGED <<pvars, hvars, svars>>
    \/ CallWriteChunkedBody /\ UNCHANGED <<pvars, hvars, svars>>
    \/ CallWriteChunkedBodyDone /\ UNCHANGED <<pvars, hvars, svars>>
    \/ CallWriteTrailers /\ UNCHANGED <<pvars, hvars, svars>>

\* the response writer, under every sequence of calls
SpecWriter == WriteInit /\ [][WriteNext]_vars

ServeInit ==
    /\ ParserIdle
    /\ HeadersInit
    /\ WriterInit
    /\ ServerInit

ServeNext ==
    \/ \E k \in CloseCalls : CloseStore(k) /\ UNCHANGED <<pvars, hvars, wvars>>
    \/ \E k \in CloseCalls : CloseListener(k) /\ UNCHANGED <<pvars, hvars, wvars>>
    \/ \E c \in Conns : Connect(c) /\ UNCHANGED <<pvars, hvars, wvars>>
    \/ \E c \in Conns : AcceptConn(c) /\ UNCHANGED <<pvars, hvars, wvars>>
    \/ \E c \in Conns : Spawn(c) /\ UNCHANGED <<pvars, hvars, wvars>>
    \/ AcceptError /\ UNCHANGED <<pvars, hvars, wvars>>
    \/ CheckClosed /\ UNCHANGED <<pvars, hvars, wvars>>
    \/ LogError /\ UNCHANGED <<pvars, hvars, wvars>>
    \/ \E c \in Conns, input \in ConnInputs : HandleRead(c, input) /\ UNCHANGED <<pvars, hvars, wvars>>
    \/ \E c \in Conns : HandleBadRequest(c) /\ UNCHANGED <<pvars, hvars, wvars>>
    \/ \E c \in Conns : HandleInvoke(c) /\ UNCHANGED <<pvars, hvars, wvars>>

\* the connection server: Close calls, the accept loop and the workers interleaved
SpecServer == ServeInit /\ [][ServeNext]_vars

\* the steps of the goroutines that serve connection c: the accept loop's go
\* statement and the worker's handle
WorkerStep(c) ==
    /\ \/ Spawn(c)
       \/ \E input \in ConnInputs : HandleRead(c, input)
       \/ HandleBadRequest(c)
       \/ HandleInvoke(c)
    /\ UNCHANGED <<pvars, hvars, wvars>>

\* Close and the accept loop alone: the connections Accept returns get their
\* worker started, and the workers are left out
ListenNext ==
    \/ \E k \in CloseCalls : CloseStore(k) /\ UNCHANGED <<pvars, hvars, wvars>>
    \/ \E k \in CloseCalls : CloseListener(k) /\ UNCHANGED <<pvars, hvars, wvars>>
    \/ \E c \in Conns : Connect(c) /\ UNCHANGED <<pvars, hvars, wvars>>
    \/ \E c \in Conns : AcceptConn(c) /\ UNCHANGED <<pvars, hvars, wvars>>
    \/ \E c \in Conns : Spawn(c) /\ UNCHANGED <<pvars, hvars, wvars>>
    \/ AcceptError /\ UNCHANGED <<pvars, hvars, wvars>>
    \/ CheckClosed /\ UNCHANGED <<pvars, hvars, wvars>>
    \/ LogError /\ UNCHANGED <<pvars, hvars, wvars>>

\* a step the accept loop's goroutine takes without waiting for a peer: the go
\* statement, the test of the flag, the log call, and Accept returning its error
\* on a listener that is closed
ListenStep ==
    /\ \/ \E c \in Conns : Spawn(c)
       \/ CheckClosed
       \/ LogError
       \/ listener = "closed" /\ AcceptError
    /\ UNCHANGED <<pvars, hvars, wvars>>

\* Close's second statement, once its first has run
CloseStep(k) == CloseListener(k) /\ UNCHANGED <<pvars, hvars, wvars>>

\* Accept returns connection c
AcceptStep(c) == AcceptConn(c) /\ UNCHANGED <<pvars, hvars, wvars>>

\* Close and the accept loop when the goroutines that can run do run in the end, a
\* call of Close goes on to its return, and Accept, called again and again with a
\* connection queued, returns it in the end
SpecListenFair ==
    /\ ServeInit
    /\ [][ListenNext]_vars
    /\ WF_vars(ListenStep)
    /\ \A k \in CloseCalls : WF_vars(CloseStep(k))
    /\ \A c \in Conns : SF_vars(AcceptStep(c))

\* the connection server when every goroutine that can run does run in the end,
\* every peer delivers its request and the handler returns
SpecServerFair == ServeInit /\ [][ServeNext]_vars /\ \A c \in Conns : WF_vars(WorkerStep(c))

-----------------------------------------------------------------------------
(* Properties of the request parser (checked under Spec).                  *)

Finished(k) == outcomes[k] # NotRun

Tokens(l) == Split(l, SP)

\* the request line the wire format describes: METHOD SP target SP HTTP/1.1 with
\* a non-empty method of uppercase letters
LineOK(l) ==
    /\ Len(Tokens(l)) = 3
    /\ Tokens(l)[1] # <<>>
    /\ \A i \in DOMAIN Tokens(l)[1] : IsUpper(Tokens(l)[1][i])
    /\ Tokens(l)[3] = HTTP11

\* the content-length values the header lines of s declare, one per declaring line
LengthLines(s) == {i \in DOMAIN s.hdrs : ToLower(SplitN2(s.hdrs[i], ":")[1]) = contentLengthKey}

DeclaredLength(s) ==
    LET i == CHOOSE j \in LengthLines(s) : TRUE
    IN  Atoi(TrimSpace(SplitN2(s.hdrs[i], ":")[2]))

\* request line and header lines are well formed and nothing is cut off
WellFormedHead(s) ==
    /\ s.cut = 0
    /\ LineOK(s.line)
    /\ Tokens(s.line)[2] # <<>>
    /\ \A i \in DOMAIN s.hdrs : s.hdrs[i] \in GoodHeaderLines
    /\ Cardinality(LengthLines(s)) <= 1

\* a valid request byte sequence: a well-formed head followed by exactly the
\* declared number of body bytes (none when no content-length is declared)
Valid(s) ==
    /\ WellFormedHead(s)
    /\ IF LengthLines(s) = {} THEN s.body = <<>>
       ELSE DeclaredLength(s).err = NoErr /\ Len(s.body) = DeclaredLength(s).n

\* more body bytes on the wire than the content-length declares
ExcessBody(s) ==
    /\ WellFormedHead(s)
    /\ LengthLines(s) # {}
    /\ DeclaredLength(s).err = NoErr
    /\ Len(s.body) > DeclaredLength(s).n

\* C1: a valid request parses to the same Request (request line, headers, body)
\* with every reader: one byte per read, eight bytes per read, as many as fit.
C1_SameRequestForEveryReader ==
    Valid(src) =>
        \A k1, k2 \in ReaderKinds :
            Finished(k1) /\ Finished(k2) =>
                /\ outcomes[k1].status = "ok"
                /\ outcomes[k1] = outcomes[k2]

C1_Witness ==
    /\ Valid(src)
    /\ Len(src.hdrs) = 2
    /\ src.body # <<>>
    /\ \A k \in ReaderKinds : outcomes[k].status = "ok" /\ outcomes[k].req.Body = src.body

\* C7: a request that carries more body bytes than its content-length declares
\* fails with the body-length error, with every reader.
C7_ExcessBodyAlwaysFails ==
    ExcessBody(src) =>
        \A k \in ReaderKinds :
            Finished(k) => outcomes[k].status = "err" /\ outcomes[k].err = ErrBodyLength

\* the content-length a header table declares
TableLength(h) == Atoi(h[contentLengthKey])

\* C8: a returned Request whose headers hold content-length N has a body of
\* exactly N bytes, and while no error has been returned the accumulated body
\* never holds more than N bytes (and holds none when no length is declared).
C8_BodyLengthIsContentLength ==
    /\ \A k \in ReaderKinds :
        outcomes[k].status = "ok" /\ HasKey(outcomes[k].req.Headers, contentLengthKey) =>
            /\ TableLength(outcomes[k].req.Headers).err = NoErr
            /\ Len(outcomes[k].req.Body) = TableLength(outcomes[k].req.Headers).n
    /\ status \in {"running", "ok"} =>
            IF HasKey(req.Headers, contentLengthKey) /\ TableLength(req.Headers).err = NoErr
            THEN Len(req.Body) <= TableLength(req.Headers).n
            ELSE req.Body = <<>>

C8_Witness ==
    /\ outcomes["fit"].status = "ok"
    /\ HasKey(outcomes["fit"].req.Headers, contentLengthKey)
    /\ TableLength(outcomes["fit"].req.Headers).n = 2
    /\ outcomes["fit"].req.Body = <<"b", "o">>

\* C9: a request line is accepted only if it has exactly three space-separated
\* tokens, a non-empty method of uppercase letters and the version token HTTP/1.1;
\* any other line makes the parse fail with an error; an accepted line stores the
\* target verbatim.
C9_RequestLineAcceptedOnlyIfWellFormed ==
    /\ req.state # requestStateInitialized =>
            /\ LineOK(src.line)
            /\ req.RequestLine.RequestTarget = Tokens(src.line)[2]
    /\ ~LineOK(src.line) /\ status \notin {"idle", "running"} => status = "err"

\* C14: feeding bytes to a Request that is Done is an error, through parse and
\* through parseSingle alike; the bytes are neither accepted nor silently ignored.
C14_FeedAfterDoneIsError ==
    fed.called => fed.err # NoErr /\ fed.single # NoErr

\* the states in their order
NextState(s) ==
    CASE s = requestStateInitialized -> requestStateParsingHeaders
      [] s = requestStateParsingHeaders -> requestStateParsingBody
      [] OTHER -> requestStateDone

\* C15: within a parse pass every parseSingle call leaves the state where it was
\* or moves it to the next state in the order Initialized, ParsingHeaders,
\* ParsingBody, Done; a pass starts in the state the pass before ended in.
C15_StateOnlyForward ==
    /\ \A i \in 1..(Len(lastPass.trail) - 1) :
            lastPass.trail[i + 1] \in {lastPass.trail[i], NextState(lastPass.trail[i])}
    /\ lastPass.trail[1] = lastPass.before
    /\ status \in {"running", "ok", "err"} => lastPass.trail[Len(lastPass.trail)] = req.state
    /\ fed.called => fed.after = requestStateDone

C15_Witness ==
    /\ reader = "fit"
    /\ status = "ok"
    /\ lastPass.trail = <<requestStateParsingHeaders, requestStateParsingHeaders,
                          requestStateParsingBody, requestStateDone>>
    /\ req.Body # <<>>

\* the length of the head of the wire form: request line, header lines, blank line
HeadLen(s) == Len(s.line) + 2 + Len(JoinLines(s.hdrs)) + 2

\* C20: a request without content-length is Done in the very pass that consumes
\* the blank line (the parser never rests in ParsingBody waiting for a read), its
\* body is empty, and "GET / HTTP/1.1\r\n\r\n" parses to GET, /, 1.1, no headers,
\* empty body, state Done.
C20_NoLengthDoneAtBlankLine ==
    /\ status = "running" /\ ~HasKey(req.Headers, contentLengthKey) =>
            /\ req.state \in {requestStateInitialized, requestStateParsingHeaders}
            /\ LengthLines(src) = {} => pos < HeadLen(src)
    /\ \A k \in ReaderKinds :
            outcomes[k].status = "ok" /\ ~HasKey(outcomes[k].req.Headers, contentLengthKey) =>
                outcomes[k].req.Body = <<>> /\ outcomes[k].req.state = requestStateDone
    /\ \A k \in ReaderKinds :
            Wire(src) = <<"G", "E", "T", " ", "/", " ", "H", "T", "T", "P", "/", "1", ".", "1",
                          "\r", "\n", "\r", "\n">> /\ Finished(k) =>
                outcomes[k] = [status |-> "ok", err |-> NoErr,
                               req |-> [state |-> requestStateDone,
                                        RequestLine |-> [Method |-> <<"G", "E", "T">>,
                                                         RequestTarget |-> <<"/">>,
                                                         HttpVersion |-> <<"1", ".", "1">>],
                                        Headers |-> NewHeaders,
                                        Body |-> <<>>]]

C20_Witness ==
    /\ reader = "one"
    /\ status = "ok"
    /\ src.hdrs = <<HdrHost>>
    /\ src.body # <<>>
    /\ pos = HeadLen(src)
    /\ req.state = requestStateDone
    /\ req.Body = <<>>

\* C21: when the source ends while the parser is not Done, RequestFromReader
\* returns the incomplete-request error and no Request, whichever of
\* Initialized, ParsingHeaders and ParsingBody the parser is in; no Request is
\* ever returned in a state other than Done.
C21_EOFBeforeDoneIsIncomplete ==
    /\ lastPass.eof =>
            /\ lastPass.before \in {requestStateInitialized, requestStateParsingHeaders,
                                   requestStateParsingBody}
            /\ status = "err"
            /\ perr = ErrIncomplete
            /\ outcomes[reader] = [status |-> "err", err |-> ErrIncomplete, req |-> NewRequest]
    /\ \A k \in ReaderKinds :
            outcomes[k].status = "ok" => outcomes[k].req.state = requestStateDone
    /\ status \in {"ok", "err"} /\ pos = Len(Wire(src)) /\ req.state # requestStateDone =>
            status = "err" /\ outcomes[reader].req = NewRequest

\* the source ended in the middle of the declared body
C21_Witness ==
    /\ lastPass.eof
    /\ lastPass.before = requestStateParsingBody
    /\ req.Body # <<>>
    /\ perr = ErrIncomplete
    /\ \A k \in ReaderKinds : outcomes[k].status = "err" /\ outcomes[k].err = ErrIncomplete

-----------------------------------------------------------------------------
(* Properties of the header table (checked under SpecHeaders).             *)

\* the first line of data, without its CRLF
FirstLine(data) == Slice(data, 0, IndexOf(data, crlf))

\* C10: Parse on a complete header line that contains no colon returns a
\* validation error (it does not panic) and inserts no entry.
C10_NoColonIsValidationError ==
    /\ hcall.op = "Parse"
    /\ IndexOf(hcall.data, crlf) > 0
    /\ IndexOf(FirstLine(hcall.data), <<":">>) = -1
    => /\ hcall.err \in {ErrHeaderName, ErrHeaderToken}
       /\ hdr = hcall.before

\* the text of a header line before its first colon, and after it
NameText(l) == Slice(l, 0, IndexOf(l, <<":">>))
ValueText(l) == From(l, IndexOf(l, <<":">>) + 1)

\* the name and the value a well-formed header line carries
LineName(l) == ToLower(NameText(l))
LineValue(l) == TrimSpace(ValueText(l))

\* the last call inserted a header: every Set, and a Parse that consumed a line
Inserted ==
    \/ hcall.op = "Set"
    \/ hcall.op = "Parse" /\ hcall.err = NoErr /\ hcall.n > 0 /\ ~hcall.done

InsertedName ==
    IF hcall.op = "Set" THEN ToLower(hcall.data) ELSE TrimSpace(LineName(FirstLine(hcall.data)))

InsertedValue ==
    IF hcall.op = "Set" THEN hcall.value ELSE LineValue(FirstLine(hcall.data))

\* C22: an insertion through Set or Parse never overwrites: under a name that is
\* present already, whatever the letter case it was inserted with, the stored
\* value becomes the old value, ", " and the new value; every other entry stays;
\* the names of the table are lowercase, so names equal up to case share one entry.
C22_RepeatedNameJoined ==
    /\ \A k \in DOMAIN hdr : \A i \in DOMAIN k : ~IsUpper(k[i])
    /\ Inserted =>
            /\ DOMAIN hdr = DOMAIN hcall.before \cup {InsertedName}
            /\ \A k \in DOMAIN hcall.before \ {InsertedName} : hdr[k] = hcall.before[k]
            /\ hdr[InsertedName] =
                    IF InsertedName \in DOMAIN hcall.before
                    THEN hcall.before[InsertedName] \o <<",", SP>> \o InsertedValue
                    ELSE InsertedValue

\* "Set-Cookie: a" inserted, then "set-cookie:b " parsed
C22_Witness ==
    /\ hcall.op = "Parse"
    /\ hcall.data = HdrCookieB \o crlf
    /\ hcall.before = (<<"s", "e", "t", "-", "c", "o", "o", "k", "i", "e">> :> <<"a">>)
    /\ hdr = (<<"s", "e", "t", "-", "c", "o", "o", "k", "i", "e">> :> <<"a", ",", SP, "b">>)

\* the lines of data up to its first blank line
RECURSIVE SectionLines(_)
SectionLines(data) ==
    IF IndexOf(data, crlf) <= 0 THEN <<>>
    ELSE <<FirstLine(data)>> \o SectionLines(From(data, IndexOf(data, crlf) + 2))

\* the length of the section: its lines and the blank line, each with its CRLF
SectionLength(data) == Len(JoinLines(SectionLines(data))) + 2

\* a byte of the token class
TokenByte(c) == IsUpper(c) \/ IsLower(c) \/ IsDigit(c) \/ c \in tokenChars

\* a header line with a colon and a name made of token bytes
WellFormedLine(l) ==
    /\ IndexOf(l, <<":">>) > 0
    /\ \A i \in DOMAIN NameText(l) : TokenByte(NameText(l)[i])

\* data starts with a complete header section: well-formed lines, then the blank line
CompleteSection(data) ==
    /\ HasPrefixAt(data, SectionLength(data) - 2, crlf)
    /\ \A i \in DOMAIN SectionLines(data) : WellFormedLine(SectionLines(data)[i])

\* the name of line i occurs once in the section and was not in the table before
Once(lines, i, before) ==
    /\ LineName(lines[i]) \notin DOMAIN before
    /\ \A j \in DOMAIN lines : LineName(lines[j]) = LineName(lines[i]) => j = i

BadName(l) ==
    /\ IndexOf(l, <<":">>) >= 0
    /\ \E i \in DOMAIN NameText(l) : ~TokenByte(NameText(l)[i])

\* C24: a header line whose name has a space before the colon or holds a byte
\* outside the token class is rejected: Parse and ParseAll return an error,
\* report 0 bytes consumed and insert nothing for that line.
C24_BadNameRejected ==
    /\ hcall.op = "Parse" /\ IndexOf(hcall.data, crlf) > 0 /\ BadName(FirstLine(hcall.data)) =>
            /\ hcall.err \in {ErrHeaderName, ErrHeaderToken}
            /\ hcall.n = 0
            /\ hdr = hcall.before
    /\ hcall.op = "ParseAll" /\ IndexOf(hcall.data, crlf) > 0 /\ BadName(FirstLine(hcall.data)) =>
            /\ hcall.err \in {ErrHeaderName, ErrHeaderToken}
            /\ hcall.n = 0
            /\ hdr = hcall.before

\* two names equal up to letter case
EqualFold(a, b) ==
    /\ Len(a) = Len(b)
    /\ \A i \in DOMAIN a : ToLowerByte(a[i]) = ToLowerByte(b[i])

\* C25: Get returns the value stored under the name whatever the letter case of
\* the lookup and of the insertions, and the empty string for a name that is not
\* in the table.
C25_GetCaseInsensitive ==
    hcall.op = "Get" =>
        /\ \A k \in DOMAIN hdr : EqualFold(k, hcall.data) => hcall.value = hdr[k]
        /\ (\A k \in DOMAIN hdr : ~EqualFold(k, hcall.data)) => hcall.value = <<>>
        /\ \A key \in GetKeys : EqualFold(key, hcall.data) => Get(hdr, key) = hcall.value

\* "Host" set as hOST and as Host, looked up as HOST
C25_Witness ==
    /\ hcall.op = "Get"
    /\ hcall.data = <<"H", "O", "S", "T">>
    /\ hcall.value = <<"h", ",", SP, "v", ",", "w">>
    /\ DOMAIN hdr = {<<"h", "o", "s", "t">>}

-----------------------------------------------------------------------------
(* Properties of the response writer (checked under SpecWriter).           *)

\* the state each operation requires
Required(op) ==
    CASE op = "WriteStatusLine" -> writerStateStatusLine
      [] op = "WriteHeaders" -> writerStateHeaders
      [] op \in BodyOps -> writerStateBody
      [] op = "WriteTrailers" -> writerStateTrailers

\* C2: an operation called outside its required state returns an error, writes
\* nothing to the sink and leaves the writer state as it was.
C2_OutOfStateCallRefused ==
    wcall.op # "none" /\ wcall.before # Required(wcall.op) =>
        /\ wcall.err = ErrWriterState
        /\ wcall.out = <<>>
        /\ writerState = wcall.before

C2_Witness ==
    /\ wcall.op = "WriteHeaders"
    /\ wcall.before = writerStateStatusLine
    /\ wcall.err = ErrWriterState
    /\ sink = <<>>

\* WriteChunkedBodyDone has been called in state Body (whatever the sink did)
DoneCalled == \E i \in DOMAIN whist : whist[i].op = "WriteChunkedBodyDone"

\* C3: WriteChunkedBodyDone in state Body hands the sink exactly "0\r\n" (nothing
\* when the sink refuses the write) and leaves the writer in Trailers; from then
\* on every body write is refused: none passes its state guard again.
C3_ChunkedBodyDoneEndsBody ==
    /\ wcall.op = "WriteChunkedBodyDone" /\ wcall.before = writerStateBody =>
            /\ writerState = writerStateTrailers
            /\ wcall.out = IF wcall.err = NoErr THEN <<"0", CR, LF>> ELSE <<>>
    /\ DoneCalled => writerState = writerStateTrailers
    /\ DoneCalled /\ wcall.op \in BodyOps =>
            \/ wcall.err = ErrWriterState /\ wcall.out = <<>>
            \/ wcall.op = "WriteChunkedBodyDone" /\ wcall.before = writerStateBody
    /\ \A i, j \in DOMAIN whist :
            i < j /\ whist[i].op = "WriteChunkedBodyDone" => whist[j].op \notin BodyOps

C3_Witness ==
    /\ Len(whist) >= 3
    /\ whist[Len(whist)] = [op |-> "WriteChunkedBodyDone", err |-> NoErr]
    /\ SubSeq(sink, Len(sink) - 2, Len(sink)) = <<"0", CR, LF>>
    /\ wcall.op = "WriteChunkedBody"
    /\ wcall.before = writerStateTrailers
    /\ wcall.err = ErrWriterState

\* C4: WriteTrailers succeeds only after WriteChunkedBodyDone has been called on
\* the writer in state Body (never after a fixed-length WriteBody alone).
C4_TrailersOnlyAfterChunkedDone ==
    \A j \in DOMAIN whist :
        whist[j] = [op |-> "WriteTrailers", err |-> NoErr] =>
            \E i \in 1..(j - 1) : whist[i].op = "WriteChunkedBodyDone"

\* the guard-passing calls of one operation
CallsOf(op) == {i \in DOMAIN whist : whist[i].op = op}

\* C16: no call, accepted or refused, moves the writer state backward, and
\* WriteStatusLine and WriteHeaders each pass their guard (so succeed) at most
\* once per writer.
C16_WriterForwardOnly ==
    /\ wcall.op # "none" => WriterRank(writerState) >= WriterRank(wcall.before)
    /\ \A i \in DOMAIN whist : WriterRank(writerState) >= WriterRank(Required(whist[i].op))
    /\ Cardinality(CallsOf("WriteStatusLine")) <= 1
    /\ Cardinality(CallsOf("WriteHeaders")) <= 1

C16_Witness ==
    /\ whist = <<[op |-> "WriteStatusLine", err |-> NoErr], [op |-> "WriteHeaders", err |-> NoErr]>>
    /\ wcall.op = "WriteStatusLine"
    /\ wcall.before = writerStateBody
    /\ wcall.err = ErrWriterState
    /\ writerState = writerStateBody

\* the section of the response an operation writes
Section(op) ==
    CASE op = "WriteStatusLine" -> 0
      [] op = "WriteHeaders" -> 1
      [] op \in BodyOps -> 2
      [] op = "WriteTrailers" -> 3

\* C17: the sink holds the bytes of the calls in call order, and the calls come
\* in wire order: status line, header section, body, trailers; bytes of an
\* earlier section never follow bytes of a later one.
C17_SinkInWireOrder ==
    /\ sink = Concat([i \in DOMAIN wlog |-> wlog[i].out])
    /\ \A i, j \in DOMAIN whist : i < j => Section(whist[i].op) <= Section(whist[j].op)
    /\ whist # <<>> /\ whist[1] = [op |-> "WriteStatusLine", err |-> NoErr] =>
            HasPrefixAt(sink, 0, <<"H", "T", "T", "P", "/", "1", ".", "1", " ">>)

C17_Witness ==
    /\ Len(whist) = 5
    /\ \A i \in DOMAIN whist : whist[i].err = NoErr /\ wlog[i].out # <<>>
    /\ [i \in DOMAIN whist |-> whist[i].op] =
            <<"WriteStatusLine", "WriteHeaders", "WriteChunkedBody", "WriteChunkedBodyDone",
              "WriteTrailers">>
    /\ wlog[5].arg = TwoFields

\* the lines WriteHeaders must emit for a table, as a set: "name: value\r\n"
FieldLinesOf(h) == {k \o <<":", " ">> \o h[k] \o <<"\r", "\n">> : k \in DOMAIN h}

\* the lines of a header section on the wire, without the final blank line
RECURSIVE LinesOf(_)
LinesOf(bytes) ==
    IF bytes = <<>> \/ IndexOf(bytes, crlf) <= 0 THEN <<>>
    ELSE <<Slice(bytes, 0, IndexOf(bytes, crlf) + 2)>> \o LinesOf(From(bytes, IndexOf(bytes, crlf) + 2))

\* C18: WriteStatusLine(200), WriteHeaders({content-length: 4}), WriteBody("body")
\* on a fresh writer all succeed and leave exactly
\* "HTTP/1.1 200 OK\r\ncontent-length: 4\r\n\r\nbody" on the sink; a successful
\* WriteHeaders emits one "name: value\r\n" line per entry, then one blank line.
C18_ValidSequenceOnSink ==
    /\ /\ Len(whist) = 3
       /\ [i \in 1..3 |-> whist[i].op] = <<"WriteStatusLine", "WriteHeaders", "WriteBody">>
       /\ wfails = 0
       /\ wlog[1].arg = 200
       /\ wlog[2].arg = (<<"c", "o", "n", "t", "e", "n", "t", "-", "l", "e", "n", "g", "t", "h">>
                          :> <<"4">>)
       /\ wlog[3].arg = <<"b", "o", "d", "y">>
       => /\ \A i \in 1..3 : whist[i].err = NoErr
          /\ sink = <<"H", "T", "T", "P", "/", "1", ".", "1", " ", "2", "0", "0", " ", "O", "K",
                      "\r", "\n",
                      "c", "o", "n", "t", "e", "n", "t", "-", "l", "e", "n", "g", "t", "h",
                      ":", " ", "4", "\r", "\n", "\r", "\n", "b", "o", "d", "y">>
    /\ \A i \in DOMAIN whist :
            whist[i] = [op |-> "WriteHeaders", err |-> NoErr] =>
                /\ Len(LinesOf(wlog[i].out)) = Cardinality(DOMAIN wlog[i].arg)
                /\ Range(LinesOf(wlog[i].out)) = FieldLinesOf(wlog[i].arg)
                /\ Len(wlog[i].out) >= 2
                /\ From(wlog[i].out, Len(wlog[i].out) - 2) = <<"\r", "\n">>
                /\ Len(wlog[i].out) = 2 + Len(Concat(LinesOf(wlog[i].out)))

C18_Witness ==
    /\ Len(whist) = 3
    /\ wlog[1].arg = 200
    /\ wlog[2].arg = ContentLength4
    /\ wlog[3].arg = <<"b", "o", "d", "y">>
    /\ whist[3] = [op |-> "WriteBody", err |-> NoErr]
    /\ Len(sink) = 42

\* the size line of a chunk of n bytes, for the chunks written here
SizeLine(n) ==
    CASE n = 0 -> <<"0">>
      [] n = 4 -> <<"4">>
      [] n = 11 -> <<"b">>

\* C19: a WriteChunkedBody(p) that passes its guard leaves the writer in Body
\* and, when the sink accepts it, appends exactly the length of p in lowercase
\* hexadecimal, CRLF, p, CRLF; repeated calls append their chunks in call order.
C19_ChunkFraming ==
    /\ wcall.op = "WriteChunkedBody" /\ wcall.before = writerStateBody =>
            writerState = writerStateBody
    /\ \A i \in DOMAIN whist :
            whist[i] = [op |-> "WriteChunkedBody", err |-> NoErr] =>
                wlog[i].out = SizeLine(Len(wlog[i].arg)) \o <<"\r", "\n">> \o wlog[i].arg
                              \o <<"\r", "\n">>
    /\ Len(whist) > 1 /\ whist[Len(whist)] = [op |-> "WriteChunkedBody", err |-> NoErr]
                      /\ whist[Len(whist) - 1] = [op |-> "WriteChunkedBody", err |-> NoErr] =>
            From(sink, Len(sink) - Len(wlog[Len(wlog) - 1].out) - Len(wlog[Len(wlog)].out)) =
                wlog[Len(wlog) - 1].out \o wlog[Len(wlog)].out

C19_Witness ==
    /\ Len(whist) = 4
    /\ whist[3] = [op |-> "WriteChunkedBody", err |-> NoErr]
    /\ whist[4] = [op |-> "WriteChunkedBody", err |-> NoErr]
    /\ Len(wlog[3].arg) = 11
    /\ Len(wlog[4].arg) = 11
    /\ writerState = writerStateBody
    /\ From(sink, Len(sink) - 32) =
            <<"b", "\r", "\n", "h", "e", "l", "l", "o", " ", "w", "o", "r", "l", "d", "\r", "\n",
              "b", "\r", "\n", "h", "e", "l", "l", "o", " ", "w", "o", "r", "l", "d", "\r", "\n">>

-----------------------------------------------------------------------------
(* Properties of the connection server (checked under SpecServer).         *)

\* C5: the first Close sets the flag and closes the listener; a Close called
\* after a Close has returned is a no-op: it returns nil and does not touch the
\* listener.
C5_CloseIdempotent ==
    /\ CloseReturned => closed /\ listener = "closed"
    /\ \A k \in CloseCalls :
        closePc[k] = "done" /\ closeInfo[k].afterReturn =>
            closeInfo[k].ret = NoErr /\ ~closeInfo[k].touched

\* C6: once a Close has returned the listener is closed, no accept succeeds any
\* more, and no connection that arrives afterwards gets a worker.
C6_NoAcceptAfterCloseReturned ==
    /\ CloseReturned => listener = "closed"
    /\ \A c \in Conns :
        /\ Taken(c) => ~conns[c].returnedAtAccept
        /\ conns[c].late => conns[c].status = "refused"

C6_Witness ==
    /\ CloseReturned
    /\ listenPc = "exited"
    /\ \E c \in Conns : conns[c].late /\ conns[c].status = "refused"
    /\ \E c \in Conns : ~conns[c].late /\ conns[c].status = "closed"

\* C11: a parse or framing error on one connection stays with that connection's
\* worker: the process, and with it the accept loop and the other workers, keeps
\* running.
C11_ParseErrorConfined ==
    \A c \in Conns : work[c].result \in {"err", "panic"} => proc = "up"

\* C12: a worker that is done has invoked the handler exactly once if its
\* request parsed and never otherwise; when the request did not parse it has
\* written the 400 response itself.
C12_HandlerIffParsed ==
    \A c \in Conns :
        /\ work[c].handlerCalls > 0 => work[c].result = "ok" /\ work[c].handlerCalls = 1
        /\ conns[c].status = "closed" /\ work[c].result = "ok" =>
                work[c].handlerCalls = 1 /\ work[c].resp = <<>>
        /\ conns[c].status = "closed" /\ work[c].result # "ok" =>
                work[c].handlerCalls = 0 /\ work[c].resp = CallNames(BadRequestCalls(ErrorOf(c)))

\* C13: when the peer's bytes end before the parser reaches Done, the worker
\* closes the connection without writing anything to it.
C13_NoResponseOnPrematureEnd ==
    \A c \in Conns :
        conns[c].status = "closed" /\ work[c].err = ErrIncomplete => work[c].resp = <<>>

\* the connection has been returned by Accept and its worker has not returned
InFlight(c) == conns[c].status \in {"taken", "accepted", "parsed", "failed"}

C27_CloseWaitsForConnections ==
    CloseReturned =>
        /\ listener = "closed"
        /\ \A c \in Conns : Taken(c) /\ ~conns[c].returnedAtAccept => conns[c].status = "closed"

\* the body of a response: the bytes after the blank line
BodyOf(bytes) == From(bytes, IndexOf(bytes, crlf \o crlf) + 4)

\* the header lines of a response, each with its CRLF
HeaderLinesOf(bytes) ==
    LinesOf(Slice(bytes, Len(getStatusLine(400)), IndexOf(bytes, crlf \o crlf) + 2))

\* the response starts with the 400 status line and one of its header lines is
\* content-length with the byte length of the body
FramedBadRequest(bytes) ==
    /\ HasPrefixAt(bytes, 0, <<"H", "T", "T", "P", "/", "1", ".", "1", SP, "4", "0", "0", SP, "B", "a", "d",
                               SP, "R", "e", "q", "u", "e", "s", "t", CR, LF>>)
    /\ \E i \in DOMAIN HeaderLinesOf(bytes) :
            HeaderLinesOf(bytes)[i] = contentLengthKey \o <<":", SP>>
                                         \o DecDigits(Len(BodyOf(bytes))) \o crlf

\* C28: the response a worker writes when the request does not parse is the 400
\* status line, headers whose content-length is the byte length of the body
\* written, and a body that is the text of the parser's error, whatever the order
\* the header table is written in.
C28_BadRequestResponse ==
    \A c \in Conns :
        work[c].result = "err" /\ conns[c].status = "closed" =>
            /\ work[c].resp = CallNames(BadRequestCalls(ErrorOf(c)))
            /\ \A order \in Orders(BadRequestCalls(ErrorOf(c))[2].arg) :
                    /\ FramedBadRequest(ResponseBytes(BadRequestCalls(ErrorOf(c)), order))
                    /\ BodyOf(ResponseBytes(BadRequestCalls(ErrorOf(c)), order)) = ErrorOf(c)

\* C29: a connection is never closed twice, and every connection Accept has
\* returned is closed by the server in the end.
C29_AcceptedEventuallyClosedOnce ==
    /\ [](\A c \in Conns : conns[c].closes <= 1)
    /\ \A c \in Conns : Taken(c) ~> (conns[c].status = "closed" /\ conns[c].closes = 1)

\* C30: a connection that Accept returns when the closed flag is set already is
\* not handed to a worker.
C30_NoWorkerAfterFlag ==
    \A c \in Conns :
        conns[c].flagAtAccept =>
            conns[c].status \notin {"accepted", "parsed", "failed"} /\ work[c] = NoWork

\* C31: once Close has been called the accept loop ends: it returns from the
\* test of the closed flag, after an Accept that failed, and an error that gets
\* logged is never the error of the closed listener.
C31_LoopEndsAfterClose ==
    /\ closed ~> listenPc = "exited"
    /\ [][listenPc' = "exited" /\ listenPc # "exited" => listenPc = "failed" /\ closed]_vars
    /\ [][listenPc' = "logged" /\ listenPc # "logged" => listener = "open" /\ ~closed]_vars

\* the loop has ended after one call of Close, whose listener close returned nil
C31_Witness ==
    /\ listenPc = "exited"
    /\ closePc = [k \in CloseCalls |-> IF k = 1 THEN "done" ELSE "idle"]
    /\ closeInfo[1].ret = NoErr
    /\ lclose = 1

\* C32: when Accept has failed and the closed flag is not set, the loop logs the
\* error and calls Accept again instead of returning, and a connection that is
\* waiting then is accepted and handed to a worker, unless Close intervenes.
C32_LoopContinuesAfterError ==
    /\ [][listenPc = "failed" /\ ~closed /\ listenPc' # listenPc => listenPc' = "logged"]_vars
    /\ [][listenPc = "logged" /\ listenPc' # listenPc => listenPc' = "accept"]_vars
    /\ \A c \in Conns :
            (listenPc = "logged" /\ conns[c].status = "pending")
                ~> (conns[c].status = "accepted" \/ closed)

\* an Accept error is being logged while a connection waits on the listener
C32_Witness ==
    /\ listenPc = "logged"
    /\ ~closed
    /\ conns[1].status = "accepted"
    /\ conns[2].status = "pending"

\* C33: at most one WriteBody call passes its guard on a writer, so at most one
\* succeeds; a WriteBody after a successful one returns the state error and
\* hands the sink nothing.
C33_BodyWrittenOnce ==
    /\ Cardinality(CallsOf("WriteBody")) <= 1
    /\ wcall.op = "WriteBody" /\ wcall.before = writerStateBody =>
            /\ whist # <<>>
            /\ whist[Len(whist)].op = "WriteBody"
            /\ whist[Len(whist)].err = wcall.err
    /\ wcall.op = "WriteBody" /\ wcall.before # writerStateBody =>
            wcall.err = ErrWriterState /\ wcall.out = <<>>
    /\ (\E i \in DOMAIN whist : whist[i].op = "WriteBody") => writerState = writerStateTrailers

\* a second WriteBody has been refused after the first one wrote "body"
C33_Witness ==
    /\ Len(whist) = 3
    /\ whist[3] = [op |-> "WriteBody", err |-> NoErr]
    /\ wlog[3].out = <<"b", "o", "d", "y">>
    /\ wcall.op = "WriteBody"
    /\ wcall.before = writerStateTrailers
    /\ wcall.err = ErrWriterState
    /\ wcall.out = <<>>
    /\ From(sink, Len(sink) - 4) = <<"b", "o", "d", "y">>

\* C34: once a WriteTrailers call has succeeded no later call on the writer
\* succeeds, a second WriteTrailers included: at most one trailer section, with
\* its final blank line, is handed to the sink.
C34_TrailersCompleteResponse ==
    /\ \A i, j \in DOMAIN whist :
            i < j /\ whist[i] = [op |-> "WriteTrailers", err |-> NoErr] => whist[j].err # NoErr
    /\ Cardinality({i \in DOMAIN whist : whist[i] = [op |-> "WriteTrailers", err |-> NoErr]}) <= 1
    /\ (\E i \in DOMAIN whist : whist[i] = [op |-> "WriteTrailers", err |-> NoErr])
       /\ wcall.op # "WriteTrailers" => wcall.err # NoErr

\* C35: no WriteChunkedBody call, whatever its payload, hands the sink a chunk
\* whose size line is "0" (the terminating chunk) while the writer stays in Body;
\* that chunk comes from WriteChunkedBodyDone only.
C35_ZeroChunkOnlyFromDone ==
    /\ \A i \in DOMAIN whist :
            whist[i].op = "WriteChunkedBody" => ~HasPrefixAt(wlog[i].out, 0, <<"0", CR, LF>>)
    /\ wcall.op = "WriteChunkedBody" /\ writerState = writerStateBody =>
            ~HasPrefixAt(wcall.out, 0, <<"0", CR, LF>>)

\* the state after the one an operation requires
Advanced(op) ==
    CASE op = "WriteStatusLine" -> writerStateHeaders
      [] op = "WriteHeaders" -> writerStateBody

\* C36: a WriteStatusLine or WriteHeaders called in its required state moves the
\* writer to the next state even when the sink refuses the write, so after it
\* has returned the sink's error a retry of the same operation is refused by the
\* state guard: it never passes the guard a second time.
C36_FailedWriteStillAdvances ==
    /\ wcall.op \in {"WriteStatusLine", "WriteHeaders"} /\ wcall.before = Required(wcall.op) =>
            writerState = Advanced(wcall.op)
    /\ \A i \in DOMAIN whist :
            whist[i].op \in {"WriteStatusLine", "WriteHeaders"} /\ whist[i].err = ErrSink =>
                /\ WriterRank(writerState) >= WriterRank(Advanced(whist[i].op))
                /\ \A j \in DOMAIN whist : j # i => whist[j].op # whist[i].op
                /\ wcall.op = whist[i].op =>
                        \/ i = Len(whist) /\ wcall.before = Required(wcall.op) /\ wcall.err = ErrSink
                        \/ wcall.err = ErrWriterState /\ wcall.out = <<>>

\* the sink refused the status line, and the retry was refused by the state guard
C36_Witness ==
    /\ whist = <<[op |-> "WriteStatusLine", err |-> ErrSink]>>
    /\ wcall.op = "WriteStatusLine"
    /\ wcall.before = writerStateHeaders
    /\ wcall.err = ErrWriterState
    /\ writerState = writerStateHeaders
    /\ sink = <<>>

\* the bytes the next parse pass is called on: those left in the buffer and those
\* the read of this step delivers
PassData == Slice(buf, 0, readToIndex) \o SubSeq(Wire(src), pos + 1, pos')

\* C37: a parse pass entered in Initialized or ParsingHeaders on bytes that hold
\* no CRLF consumes nothing and returns no error; the state, the request line
\* and the header table stay as they were, and the bytes stay at the front of
\* the buffer for the next read.
C37_NoCRLFNoProgress ==
    [][status = "running" /\ pos' > pos
       /\ req.state \in {requestStateInitialized, requestStateParsingHeaders}
       /\ IndexOf(PassData, crlf) = -1
       => /\ lastPass'.parsed = 0
          /\ lastPass'.trail = <<req.state, req.state>>
          /\ perr' = NoErr
          /\ status' = "running"
          /\ req' = req
          /\ readToIndex' = Len(PassData)
          /\ Slice(buf', 0, readToIndex') = PassData]_vars

\* a pass in ParsingHeaders has left the first bytes of a header line in the buffer
C37_Witness ==
    /\ status = "running"
    /\ reader = "one"
    /\ lastPass.before = requestStateParsingHeaders
    /\ lastPass.read = 1
    /\ lastPass.parsed = 0
    /\ req.state = requestStateParsingHeaders
    /\ req.RequestLine.Method = <<"G", "E", "T">>
    /\ Slice(buf, 0, readToIndex) = <<"H", "o", "s">>

\* 8 times a power of two
RECURSIVE IsDoubled(_)
IsDoubled(n) == n = bufferSize \/ (n > bufferSize /\ n % 2 = 0 /\ IsDoubled(n \div 2))

\* C38: throughout RequestFromReader 0 <= readToIndex <= len(buf) and len(buf)
\* is 8 times a power of two; a parse pass never reports more bytes consumed than
\* the buffer held; every read is issued on a non-empty free region; after each
\* pass the unconsumed bytes are at the front of the buffer, in the order they
\* arrived in.
C38_BufferInvariants ==
    /\ [](/\ 0 <= readToIndex /\ readToIndex <= Len(buf)
          /\ IsDoubled(Len(buf))
          /\ readToIndex <= pos
          /\ Slice(buf, 0, readToIndex) = SubSeq(Wire(src), pos - readToIndex + 1, pos))
    /\ [][status = "running" =>
            /\ lastPass'.free = Len(buf') - readToIndex
            /\ lastPass'.free >= 1
            /\ lastPass'.read <= lastPass'.free
            /\ lastPass'.parsed <= readToIndex + lastPass'.read
            /\ pos' > pos =>
                    Slice(buf', 0, readToIndex') = From(PassData, lastPass'.parsed)]_vars

\* the buffer has been doubled, and a pass has consumed a line and left the bytes
\* that followed it at the front
C38_Witness ==
    /\ status = "running"
    /\ reader = "fit"
    /\ Len(buf) = 2 * bufferSize
    /\ lastPass.parsed > 0
    /\ lastPass.read < lastPass.free
    /\ readToIndex > 0
    /\ Slice(buf, 0, readToIndex) = SubSeq(Wire(src), pos - readToIndex + 1, pos)

\* C39: ParseAll returns on every input, with the bytes consumed or an error,
\* also when the input ends before the blank line that closes the section.
C39_ParseAllTerminates ==
    hcall.op = "ParseAll" =>
        /\ hcall.returns
        /\ hcall.err = NoErr => hcall.n <= Len(hcall.data)

====
